---- MODULE Spec2Model ----
(***************************************************************************)
(* State-machine model of the ingestion and dispatch core of the           *)
(* multi-chain indexer:                                                    *)
(*   - EventDispatcherService  (core/event-dispatcher.service.ts)          *)
(*   - ERC20TransferHandler + ContractDataService + the event store        *)
(*   - EvmBlockScanListener    (the pull listener)                         *)
(* Every await of the source is a separate step, so that the interleavings *)
(* the single-threaded runtime allows are the interleavings of the model.  *)
(***************************************************************************)
EXTENDS Integers, Sequences, FiniteSets, TLC

(***************************************************************************)
(* Bounds of the model.                                                    *)
(***************************************************************************)
MaxEvents == 3
MaxHandlers == 2
MaxInvocations == 3
MaxOverlapped == 2
MaxInFlight == 2
MaxStoreErrors == 1
MaxHead == 4
MaxTicks == 2
MaxTicksInFlight == 2
MaxStartCalls == 2
MaxTimers == 4
MaxFailedQueries == 1
MaxPushLogs == 3
MaxCallbacks == 2
MaxWsErrors == 2
MaxWsStarts == 2
MaxRefreshes == 1
MaxLoadsInFlight == 2
MaxConnects == 2
MaxServiceOps == 2
MaxDecimals == 2
MaxStoreChanges == 2
MaxReloads == 2
MaxRangeLogs == 3

None == "none"
\* A lookup in a collection that finds no document (null).
NoDoc == [absent |-> TRUE]

VARIABLES
  \* ---- EventDispatcherService ----
  handlers,      \* this.handlers: sequence of registered handlers
  eventQueue,    \* this.eventQueue: FIFO of events
  isProcessing,  \* this.isProcessing
  callPc,        \* per caller of dispatchEvent: "idle" or "draining"
  current,       \* per caller: event its drain loop is processing
  pending,       \* per caller: handler slots whose handle() has not settled
  appended,      \* history: number of events pushed so far (ids 1..appended)
  popped,        \* history: the events in the order they were shifted
  started,       \* history: <<event id, handler slot>> invocations of handle()
  outcomes,      \* history: <<event id, handler slot, "ok" | "throw">>
  registered     \* history: number of registerHandler calls

dispVars == <<handlers, eventQueue, isProcessing, callPc, current, pending,
              appended, popped, started, outcomes, registered>>

VARIABLES
  \* ---- ERC20TransferHandler, ContractDataService, event store ----
  eventStore,    \* the BlockchainEvent collection: sequence of documents
  contractData,  \* the ContractData collection: (chainId, address) -> document
  inv,           \* per invocation slot of handle(): position and locals
  invoked,       \* history: number of handle() calls made so far
  handled,       \* history: number of handle() calls that have returned
  dupKeyErrors,  \* history: number of saves rejected with error code 11000
  counted,       \* history: keys of the logs the counters were incremented for
  storeErrors    \* history: number of store calls that failed

handlerVars == <<eventStore, contractData, inv, invoked, handled, dupKeyErrors,
                 counted, storeErrors>>

VARIABLES
  \* ---- EvmBlockScanListener (pull listener) and its chain ----
  head,              \* block number provider.getBlockNumber() returns now
  isRunning,         \* this._isRunning
  cursor,            \* this.lastProcessedBlock
  scanInterval,      \* this.scanInterval: timer id, 0 for null
  contractRefreshTimer, \* this.contractRefreshTimer: timer id, 0 for null
  liveTimers,        \* interval timers created and not cleared
  contractConfigs,   \* this.contractConfigs: the loaded contract snapshot
  startPc,           \* per start() call: "idle", "load" or "head"
  ticks,             \* per scan-timer callback in flight: position and locals
  enqueued,          \* history: the logs passed to dispatchEvent, in order
  firstCursor,       \* history: the cursor start() last initialised
  timersMade,        \* history: number of interval timers created
  ticksFired         \* history: number of scan callbacks that began a scan

pullVars == <<head, isRunning, cursor, scanInterval, contractRefreshTimer,
              liveTimers, contractConfigs, startPc, ticks, enqueued,
              firstCursor, timersMade, ticksFired>>

VARIABLES
  \* ---- EvmWebSocketListener (push listener) ----
  wsRunning,         \* this._isRunning
  reconnectAttempts, \* this.reconnectAttempts
  reconnectTimer,    \* this.reconnectTimer: "null", "pending" or "fired"
  refreshTimer,      \* this.refreshTimer: "null" or "live"
  orphanReconnects,  \* pending reconnect timeouts no field refers to
  orphanRefreshes,   \* live refresh intervals no field refers to
  subscribed,        \* the contract event listeners are attached
  errorHandler,      \* the wsProvider 'error' listener is attached
  loads,             \* loadAndSetupContracts calls in flight, by caller
  wsInFlight,        \* notifications whose callback awaits receipt and block
  notified,          \* number of logs the chain has emitted so far
  received,          \* history: notifications accepted by a callback, in order
  wsEnqueued,        \* history: notifications passed to dispatchEvent, in order
  failedReconnects,  \* history: failed reconnect() calls since the last success
  exhausted,         \* history: handleConnectionError has stopped the listener
  wsErrors,          \* history: number of 'error' events of the provider
  wsStarts,          \* history: number of start() calls
  refreshes,         \* history: number of refresh callbacks that began a load
  reconnectDelay     \* delay, in ms, of the reconnect timeout set last (0: none)

pushVars == <<wsRunning, reconnectAttempts, reconnectDelay, reconnectTimer, refreshTimer,
              orphanReconnects, orphanRefreshes, subscribed, errorHandler,
              loads, wsInFlight, notified, received, wsEnqueued,
              failedReconnects, exhausted, wsErrors, wsStarts, refreshes>>

VARIABLES
  \* ---- start() and stop() calls as their caller sees them ----
  lastCall,          \* history: the last start() or stop() call made
  callTick           \* history: flips at every such call

callVars == <<lastCall, callTick>>

VARIABLES
  \* ---- the services: chains, adapters and listeners ----
  strategy,          \* config.strategy of each chain
  advertised,        \* the chain id each chain's endpoint reports
  sdks,              \* SdkRegistryService.sdks: the chains with a cached adapter
  wsProvider,        \* whether the adapter's wsProvider is non-null
  activeListeners,   \* ListenerFactoryService.activeListeners: kind per key
  listenerRunning,   \* isRunning() of the listener under each key
  op,                \* the service operation in progress
  phase,             \* "init", "up", "stopping", "disconnecting", "down"
  connects,          \* history: connect() calls per chain
  mismatches,        \* history: connect() calls that met a chain id mismatch
  slState,           \* history: startListeners "none", "running" or "done"
  outcome,           \* history: what startListeners did for each chain
  lastStart,         \* history: the last attempt to start each chain's listener
  serviceOps,        \* history: restart, switch and status calls made
  shListeners,       \* the entries stopAllListeners took
  settled,           \* the entries whose callback has ended
  shSdks,            \* history: sdks when shutdown began
  disconnected,      \* history: chains whose disconnect() was called
  failures,          \* history: the stops and disconnects that failed
  switchFrom,        \* history: the chain of the last switchStrategy call, its
                     \* strategy and its running listeners before the call
  \* ---- switchStrategy on one chain ----
  swPc,              \* "push", "stopped", "start" or "pull"
  switchHead         \* history: head when switchStrategy was called

svcVars ==
  <<strategy, advertised, sdks, wsProvider, activeListeners, listenerRunning,
    op, phase, connects, mismatches, slState, outcome, lastStart, serviceOps,
    shListeners, settled, shSdks, disconnected, failures, switchFrom>>

switchVars == <<swPc, switchHead>>

VARIABLES
  \* ---- extractTransferData for one Transfer ----
  ltPc,              \* "idle", "args" or "done"
  ltValue,           \* args.value of the Transfer
  ltDecimals,        \* metadata.decimals of the contract's configuration
  ltStable,          \* metadata.isStablecoin of the contract's configuration
  ltResult,          \* the isLargeTransfer field of the result
  \* ---- the contract configurations and their periodic reload ----
  storeEnabled,      \* the contracts enabled in the config store now
  storeChanges,      \* history: number of changes made to the config store
  reloads,           \* pull listener: loadContracts calls of the refresh timer
                     \* in flight
  reloadTicks,       \* history: refresh callbacks of the pull listener that
                     \* began a load
  reloadsFailed,     \* history: failed reloads, of the pull and of the push
                     \* listener
  pushActive,        \* push listener: this._isRunning
  pushRefreshTimer,  \* push listener: this.refreshTimer, "null" or "live"
  contractInstances, \* push listener: this.contractInstances, address -> the
                     \* contract object (named by the load that made it), 0: none
  contractListeners, \* contract objects with event listeners attached
  providerErrorListener, \* the 'error' listener of wsProvider is attached
  setups,            \* per loadAndSetupContracts call: position and locals,
                     \* its outcome, and the number of store changes made
                     \* before it began
  setupTicks         \* history: refresh callbacks of the push listener that
                     \* began a load

largeVars == <<ltPc, ltValue, ltDecimals, ltStable, ltResult>>

refreshVars == <<storeEnabled, storeChanges, reloads, reloadTicks, reloadsFailed,
                pushActive, pushRefreshTimer, contractInstances,
                contractListeners, providerErrorListener, setups, setupTicks>>

VARIABLES
  \* ---- setupContract of the push listener for one contract ----
  scPc,              \* "idle", "configured" or "done"
  scEvents,          \* contractConfig.events: topic-0 hashes
  scAbi,             \* the events the contract's abi declares, by name
  scListeners,       \* the event names contract.on was called with, in order
  \* ---- one scanned range of the pull listener, with logs that may not decode ----
  dcPc,              \* "idle", "loop", "receipt" or "done"
  dcEvents,          \* allEvents of getAllContractEventsInRange
  dcIdx,             \* index of the event the loop is at
  dcEnqueued         \* history: the events passed to dispatchEvent, in order

auxVars == <<scPc, scEvents, scAbi, scListeners, dcPc, dcEvents, dcIdx,
             dcEnqueued>>

vars ==
  <<dispVars, handlerVars, pullVars, pushVars, callVars, svcVars, switchVars,
    largeVars, refreshVars, auxVars>>

(***************************************************************************)
(* EventDispatcherService                                                  *)
(***************************************************************************)
Callers == {"L1", "L2"}
HandlerNames == {"A", "B"}
EventTypes == {"contract_log", "transaction"}

\* IEventHandler.canHandle of the two handler kinds of the model: A accepts
\* contract logs only, B accepts every event.
canHandle(h, ev) ==
  IF h = "A" THEN ev.eventType = "contract_log" ELSE TRUE

\* A third handler kind, C, whose canHandle reads a field that only contract
\* logs carry: it throws on every other event.
ThrowingHandler == "C"

canHandleThrows(h, ev) ==
  h = ThrowingHandler /\ ev.eventType # "contract_log"

\* processEvent line 48 when some canHandle throws: filter() throws, and so
\* does processEvent before any handle() is called.
FilterThrows(ev) ==
  \E i \in 1..Len(handlers) : canHandleThrows(handlers[i], ev)

\* processEvent line 48: this.handlers.filter(h => h.canHandle(event))
eligibleHandlers(ev) ==
  {i \in 1..Len(handlers) : canHandle(handlers[i], ev)}

\* Array.prototype.shift: removes and returns the first element.
QueueShift_lifo(q) ==
  [event |-> q[Len(q)], rest |-> SubSeq(q, 1, Len(q) - 1)]

QueueShift(q) ==
  [event |-> Head(q), rest |-> Tail(q)]

DispInit ==
  /\ handlers = <<>>
  /\ eventQueue = <<>>
  /\ isProcessing = FALSE
  /\ callPc = [c \in Callers |-> "idle"]
  /\ current = [c \in Callers |-> None]
  /\ pending = [c \in Callers |-> {}]
  /\ appended = 0
  /\ popped = <<>>
  /\ started = {}
  /\ outcomes = {}
  /\ registered = 0

\* registerHandler: push onto this.handlers.
registerHandler(h) ==
  /\ Len(handlers) < MaxHandlers
  /\ handlers' = Append(handlers, h)
  /\ registered' = registered + 1
  /\ UNCHANGED <<eventQueue, isProcessing, callPc, current, pending,
                 appended, popped, started, outcomes>>
  /\ UNCHANGED <<handlerVars, pullVars, pushVars, callVars, svcVars, switchVars, largeVars, refreshVars, auxVars>>

\* One iteration of the while loop of processEventQueue, run by caller c on
\* queue q: shift the head and call processEvent, which invokes handle() of
\* every eligible handler and then awaits Promise.allSettled.
LoopIteration(c, q) ==
  LET s == QueueShift(q) IN
  /\ ~FilterThrows(s.event)
  /\ eventQueue' = s.rest
  /\ popped' = Append(popped, s.event)
  /\ current' = [current EXCEPT ![c] = s.event]
  /\ pending' = [pending EXCEPT ![c] = eligibleHandlers(s.event)]
  /\ started' = started \cup {<<s.event.id, i>> : i \in eligibleHandlers(s.event)}
  /\ callPc' = [callPc EXCEPT ![c] = "draining"]

\* processEventQueue up to its first await, entered by caller c with queue q:
\* the flag is taken and the first iteration runs.
processEventQueue_noFlag(c, q) ==
  /\ ~isProcessing
  /\ isProcessing' = isProcessing
  /\ LoopIteration(c, q)

processEventQueue(c, q) ==
  /\ ~isProcessing
  /\ isProcessing' = TRUE
  /\ LoopIteration(c, q)

\* dispatchEvent: push, then drain unless a drain loop is already active.
dispatchEvent(c, ty) ==
  /\ callPc[c] = "idle"
  /\ appended < MaxEvents
  /\ LET ev == [id |-> appended + 1, eventType |-> ty, src |-> c]
         q == Append(eventQueue, ev)
     IN /\ appended' = appended + 1
        /\ IF ~isProcessing
             THEN processEventQueue(c, q)
             ELSE /\ eventQueue' = q
                  /\ UNCHANGED <<isProcessing, callPc, current, pending,
                                 popped, started>>
  /\ UNCHANGED <<handlers, outcomes, registered>>
  /\ UNCHANGED <<handlerVars, pullVars, pushVars, callVars, svcVars, switchVars, largeVars, refreshVars, auxVars>>

\* A handle() call of the current event settles.  processEvent lines 58-67:
\* a rejection is caught and logged inside the per-handler wrapper, so both
\* outcomes only remove the handler from the set being awaited.
HandlerSettle_propagate(c, i, res) ==
  /\ outcomes' = outcomes \cup {<<current[c].id, i, res>>}
  /\ IF res = "throw"
       THEN /\ pending' = [pending EXCEPT ![c] = {}]
            /\ current' = [current EXCEPT ![c] = None]
            /\ callPc' = [callPc EXCEPT ![c] = "idle"]
            /\ isProcessing' = FALSE
       ELSE /\ pending' = [pending EXCEPT ![c] = @ \ {i}]
            /\ UNCHANGED <<current, callPc, isProcessing>>
  /\ UNCHANGED <<handlers, eventQueue, appended, popped, started, registered>>
  /\ UNCHANGED <<handlerVars, pullVars, pushVars, callVars, svcVars, switchVars, largeVars, refreshVars, auxVars>>

HandlerSettle(c, i, res) ==
  /\ outcomes' = outcomes \cup {<<current[c].id, i, res>>}
  /\ pending' = [pending EXCEPT ![c] = @ \ {i}]
  /\ UNCHANGED <<handlers, eventQueue, isProcessing, callPc, current,
                 appended, popped, started, registered>>
  /\ UNCHANGED <<handlerVars, pullVars, pushVars, callVars, svcVars, switchVars, largeVars, refreshVars, auxVars>>

handlerDone(c, i, res) ==
  /\ callPc[c] = "draining"
  /\ i \in pending[c]
  /\ HandlerSettle(c, i, res)

\* processEvent line 67: await Promise.allSettled(promises) resumes once
\* every handler wrapper has settled.
AllSettled_notAwaited(waiting) == TRUE

AllSettled(waiting) == waiting = {}

\* processEventQueue line 36: the loop runs while eventQueue.length > 0.
QueueEmpty_afterOne(q) == TRUE

QueueEmpty(q) == q = <<>>

\* Promise.allSettled has resolved: the loop of processEventQueue goes on
\* with the next event, or leaves through finally when the queue is empty.
drainNext(c) ==
  /\ callPc[c] = "draining"
  /\ AllSettled(pending[c])
  /\ IF ~QueueEmpty(eventQueue)
       THEN /\ LoopIteration(c, eventQueue)
            /\ UNCHANGED isProcessing
       ELSE /\ isProcessing' = FALSE
            /\ callPc' = [callPc EXCEPT ![c] = "idle"]
            /\ current' = [current EXCEPT ![c] = None]
            /\ UNCHANGED <<eventQueue, pending, popped, started>>
  /\ UNCHANGED <<handlers, appended, outcomes, registered>>
  /\ UNCHANGED <<handlerVars, pullVars, pushVars, callVars, svcVars, switchVars, largeVars, refreshVars, auxVars>>

\* clearQueue: this.eventQueue.length = 0
clearQueue ==
  /\ eventQueue # <<>>
  /\ eventQueue' = <<>>
  /\ UNCHANGED <<handlers, isProcessing, callPc, current, pending,
                 appended, popped, started, outcomes, registered>>
  /\ UNCHANGED <<handlerVars, pullVars, pushVars, callVars, svcVars, switchVars, largeVars, refreshVars, auxVars>>

DispNext ==
  \/ \E h \in HandlerNames : registerHandler(h)
  \/ \E c \in Callers, ty \in EventTypes : dispatchEvent(c, ty)
  \/ \E c \in Callers, i \in 1..MaxHandlers, res \in {"ok", "throw"} :
        handlerDone(c, i, res)
  \/ \E c \in Callers : drainNext(c)
  \/ clearQueue

\* An iteration of the while loop whose processEvent throws at line 48: the
\* event is shifted, no handler is called, the exception leaves the loop
\* through finally (lines 42-44) and rejects the dispatchEvent call of c.
LoopIterationThrows(c, q) ==
  LET s == QueueShift(q) IN
  /\ FilterThrows(s.event)
  /\ eventQueue' = s.rest
  /\ popped' = Append(popped, s.event)
  /\ isProcessing' = FALSE
  /\ callPc' = [callPc EXCEPT ![c] = "idle"]
  /\ current' = [current EXCEPT ![c] = None]
  /\ UNCHANGED <<pending, started>>

\* dispatchEvent whose first loop iteration throws.
dispatchEventThrows(c, ty) ==
  /\ callPc[c] = "idle"
  /\ appended < MaxEvents
  /\ ~isProcessing
  /\ LET ev == [id |-> appended + 1, eventType |-> ty, src |-> c]
     IN /\ appended' = appended + 1
        /\ LoopIterationThrows(c, Append(eventQueue, ev))
  /\ UNCHANGED <<handlers, outcomes, registered>>
  /\ UNCHANGED <<handlerVars, pullVars, pushVars, callVars, svcVars, switchVars, largeVars, refreshVars, auxVars>>

\* Promise.allSettled has resolved and the next iteration throws.
drainNextThrows(c) ==
  /\ callPc[c] = "draining"
  /\ AllSettled(pending[c])
  /\ ~QueueEmpty(eventQueue)
  /\ LoopIterationThrows(c, eventQueue)
  /\ UNCHANGED <<handlers, appended, outcomes, registered>>
  /\ UNCHANGED <<handlerVars, pullVars, pushVars, callVars, svcVars, switchVars, largeVars, refreshVars, auxVars>>

\* The dispatcher with a handler whose canHandle may throw; nobody calls
\* clearQueue.
CanHandleNext ==
  \/ \E h \in HandlerNames \cup {ThrowingHandler} : registerHandler(h)
  \/ \E c \in Callers, ty \in EventTypes : dispatchEvent(c, ty)
  \/ \E c \in Callers, ty \in EventTypes : dispatchEventThrows(c, ty)
  \/ \E c \in Callers, i \in 1..MaxHandlers, res \in {"ok", "throw"} :
        handlerDone(c, i, res)
  \/ \E c \in Callers : drainNext(c)
  \/ \E c \in Callers : drainNextThrows(c)

\* The dispatcher when nobody calls clearQueue.
DrainNext ==
  \/ \E h \in HandlerNames : registerHandler(h)
  \/ \E c \in Callers, ty \in EventTypes : dispatchEvent(c, ty)
  \/ \E c \in Callers, i \in 1..MaxHandlers, res \in {"ok", "throw"} :
        handlerDone(c, i, res)
  \/ \E c \in Callers : drainNext(c)

\* Every handle() call settles, and a drain loop whose await has resolved is
\* resumed by the event loop.
DrainFairness ==
  /\ WF_vars(\E c \in Callers, i \in 1..MaxHandlers, res \in {"ok", "throw"} :
               handlerDone(c, i, res))
  /\ WF_vars(\E c \in Callers : drainNext(c))

(***************************************************************************)
(* ERC20TransferHandler.handle with ContractDataService and the event      *)
(* store.  Block numbers of events are at least 1; a block field that is   *)
(* not set is 0, which is what the falsy tests of the source (!x) see.     *)
(***************************************************************************)
Slots == 1..MaxInFlight

StablecoinThreshold == 100000
TokenThreshold == 1000000
DefaultDecimals == 18

RECURSIVE Pow10(_)
Pow10(n) == IF n = 0 THEN 1 ELSE 10 * Pow10(n - 1)

\* ContractConfig documents of the config store, by (chainId, address).
ContractConfigKeys == {<<1, "A">>, <<56, "A">>}
ContractConfigOf(k) == [decimals |-> 2, isStablecoin |-> TRUE]

\* contractConfigService.findByAddress: the document or null.
findConfig(chainId, address) ==
  IF <<chainId, address>> \in ContractConfigKeys
    THEN ContractConfigOf(<<chainId, address>>) ELSE NoDoc

\* value / 10^n, rounded down.
RECURSIVE DivPow10(_, _)
DivPow10(value, n) == IF n = 0 THEN value ELSE DivPow10(value \div 10, n - 1)

\* isLargeTransfer(amount, decimals, isStablecoin) of evm-constants:
\* Number(value) / Number(10^decimals) >= threshold.  The amounts used here
\* are below 2^53, where the quotient of the two doubles is at least the
\* integer threshold exactly when the rounded-down quotient is.
isLargeTransfer(value, decimals, isStablecoin) ==
  IF isStablecoin
    THEN DivPow10(value, decimals) >= StablecoinThreshold
    ELSE DivPow10(value, decimals) >= TokenThreshold

\* extractTransferData line 524: contractConfig.metadata?.decimals || 18.
contractInfoDecimals(decimals) ==
  IF decimals = 0 THEN DefaultDecimals ELSE decimals

isLargeOf(ev) ==
  LET cfg == findConfig(ev.chainId, ev.contractAddress)
  IN isLargeTransfer(ev.value, contractInfoDecimals(cfg.decimals),
                     cfg.isStablecoin)

\* The BlockchainEvents handle() is invoked with.  argsOk is false when
\* data.event.args lacks from, to or value.
HandlerEvents ==
  { [chainId |-> 1, transactionHash |-> "t1", logIndex |-> 0, blockNumber |-> 2,
     contractAddress |-> "A", value |-> 10000000, argsOk |-> TRUE],
    [chainId |-> 1, transactionHash |-> "t1", logIndex |-> 1, blockNumber |-> 2,
     contractAddress |-> "A", value |-> 5, argsOk |-> TRUE],
    [chainId |-> 1, transactionHash |-> "t0", logIndex |-> 0, blockNumber |-> 1,
     contractAddress |-> "A", value |-> 5, argsOk |-> TRUE],
    [chainId |-> 56, transactionHash |-> "t1", logIndex |-> 0, blockNumber |-> 3,
     contractAddress |-> "A", value |-> 5, argsOk |-> TRUE],
    [chainId |-> 1, transactionHash |-> "t2", logIndex |-> 0, blockNumber |-> 3,
     contractAddress |-> "Z", value |-> 5, argsOk |-> TRUE],
    [chainId |-> 1, transactionHash |-> "t3", logIndex |-> 0, blockNumber |-> 3,
     contractAddress |-> "A", value |-> 5, argsOk |-> FALSE] }

\* The fields of the unique index of BlockchainEventSchema.
EventKey(d) == <<d.chainId, d.transactionHash, d.logIndex>>

\* blockchainEventModel.findOne({transactionHash, logIndex, chainId})
findOne(store, ev) ==
  \E i \in 1..Len(store) :
     /\ store[i].transactionHash = ev.transactionHash
     /\ store[i].logIndex = ev.logIndex
     /\ store[i].chainId = ev.chainId

\* The unique index rejects an insert whose key is already in the collection.
UniqueIndexViolation_notUnique(store, doc) == FALSE

UniqueIndexViolation(store, doc) ==
  \E i \in 1..Len(store) : EventKey(store[i]) = EventKey(doc)

\* The document saveEvent builds from the event (enhancedEvent).
EnhancedEvent(ev) ==
  [chainId |-> ev.chainId, transactionHash |-> ev.transactionHash,
   logIndex |-> ev.logIndex, blockNumber |-> ev.blockNumber,
   contractAddress |-> ev.contractAddress]

CDKey(ev) == <<ev.chainId, ev.contractAddress>>

IdleInv == [pc |-> "idle", ev |-> NoDoc, snap |-> NoDoc, replay |-> FALSE]

HandlerInit ==
  /\ eventStore = <<>>
  /\ contractData = [k \in ContractConfigKeys |-> NoDoc]
  /\ inv = [s \in Slots |-> IdleInv]
  /\ invoked = 0
  /\ handled = 0
  /\ dupKeyErrors = 0
  /\ counted = {}
  /\ storeErrors = 0

\* The invocation in slot s returns.
Return(s) ==
  /\ inv' = [inv EXCEPT ![s] = IdleInv]
  /\ handled' = handled + 1

Goto(s, pc) == inv' = [inv EXCEPT ![s].pc = pc]

\* A call of the store succeeds (ok) or throws.
StoreCall(ok) ==
  /\ ok \/ storeErrors < MaxStoreErrors
  /\ storeErrors' = IF ok THEN storeErrors ELSE storeErrors + 1

\* handle() lines 455-477: config lookup and extractTransferData; the call
\* returns at once without a config or without usable args.
hStart(s, ev) ==
  /\ inv[s].pc = "idle"
  /\ invoked < MaxInvocations
  /\ invoked' = invoked + 1
  /\ IF findConfig(ev.chainId, ev.contractAddress) = NoDoc \/ ~ev.argsOk
       THEN /\ handled' = handled + 1
            /\ UNCHANGED inv
       ELSE /\ inv' = [inv EXCEPT ![s] =
                        [pc |-> "findData", ev |-> ev, snap |-> NoDoc,
                         replay |-> findOne(eventStore, ev)
                                       /\ EventKey(ev) \in counted]]
            /\ UNCHANGED handled
  /\ UNCHANGED <<eventStore, contractData, dupKeyErrors, counted>>
  /\ UNCHANGED storeErrors
  /\ UNCHANGED <<dispVars, pullVars, pushVars, callVars, svcVars, switchVars, largeVars, refreshVars, auxVars>>

\* updateContractMetadata line 607: contractDataService.findByAddress.  A
\* store error anywhere in updateContractMetadata is caught at line 687 and
\* handle() goes on with saveEvent.
hFindData(s, ok) ==
  /\ inv[s].pc = "findData"
  /\ StoreCall(ok)
  /\ IF ~ok THEN Goto(s, "findOne")
     ELSE IF contractData[CDKey(inv[s].ev)] = NoDoc
       THEN Goto(s, "createUpsert")
       ELSE inv' = [inv EXCEPT ![s].pc = "ulpbRead",
                               ![s].snap = contractData[CDKey(inv[s].ev)]]
  /\ UNCHANGED <<eventStore, contractData, invoked, handled, dupKeyErrors, counted>>
  /\ UNCHANGED <<dispVars, pullVars, pushVars, callVars, svcVars, switchVars, largeVars, refreshVars, auxVars>>

\* saveERC20Data / upsertContract (lines 614-625): findOneAndUpdate with
\* upsert; sets the block fields and replaces metadata, keeps other fields.
hCreateUpsert(s, ok) ==
  /\ inv[s].pc = "createUpsert"
  /\ StoreCall(ok)
  /\ IF ~ok THEN Goto(s, "findOne") /\ UNCHANGED contractData
     ELSE LET k == CDKey(inv[s].ev)
              old == contractData[k]
              doc == [firstSeenBlock |-> inv[s].ev.blockNumber,
                      startFromBlock |-> inv[s].ev.blockNumber,
                      lastProcessedBlock |->
                         IF old = NoDoc THEN 0 ELSE old.lastProcessedBlock,
                      transferCount |-> 0, largeTransferCount |-> 0]
          IN /\ contractData' = [contractData EXCEPT ![k] = doc]
             /\ inv' = [inv EXCEPT ![s].pc = "createUpdate", ![s].snap = doc]
  /\ UNCHANGED <<eventStore, invoked, handled, dupKeyErrors, counted>>
  /\ UNCHANGED <<dispVars, pullVars, pushVars, callVars, svcVars, switchVars, largeVars, refreshVars, auxVars>>

\* updateContract of the creation branch (lines 628-643).
hCreateUpdate(s, ok) ==
  /\ inv[s].pc = "createUpdate"
  /\ StoreCall(ok)
  /\ Goto(s, "findOne")
  /\ LET k == CDKey(inv[s].ev) IN
     IF ok /\ contractData[k] # NoDoc
       THEN /\ contractData' = [contractData EXCEPT
                 ![k].lastProcessedBlock = inv[s].ev.blockNumber,
                 ![k].transferCount = 1,
                 ![k].largeTransferCount = IF isLargeOf(inv[s].ev) THEN 1 ELSE 0]
            /\ counted' = counted \cup {EventKey(inv[s].ev)}
       ELSE UNCHANGED <<contractData, counted>>
  /\ UNCHANGED <<eventStore, invoked, handled, dupKeyErrors>>
  /\ UNCHANGED <<dispVars, pullVars, pushVars, callVars, svcVars, switchVars, largeVars, refreshVars, auxVars>>

\* The test of updateLastProcessedBlock (line 172).
NeedsBlockUpdate_always(doc, blockNumber) == TRUE

NeedsBlockUpdate(doc, blockNumber) ==
  doc.lastProcessedBlock = 0 \/ blockNumber > doc.lastProcessedBlock

\* After updateLastProcessedBlock: setFirstSeenBlock only if the document
\* read at line 607 has no firstSeenBlock (line 658).
AfterUlpb(s) == IF inv[s].snap.firstSeenBlock = 0 THEN "sfsbRead" ELSE "updateMeta"

\* updateLastProcessedBlock lines 165-172: read the document and test it.
hUlpbRead(s, ok) ==
  /\ inv[s].pc = "ulpbRead"
  /\ StoreCall(ok)
  /\ LET doc == contractData[CDKey(inv[s].ev)] IN
     IF ~ok THEN Goto(s, "findOne")
     ELSE IF doc # NoDoc /\ NeedsBlockUpdate(doc, inv[s].ev.blockNumber)
       THEN Goto(s, "ulpbWrite")
       ELSE Goto(s, AfterUlpb(s))
  /\ UNCHANGED <<eventStore, contractData, invoked, handled, dupKeyErrors, counted>>
  /\ UNCHANGED <<dispVars, pullVars, pushVars, callVars, svcVars, switchVars, largeVars, refreshVars, auxVars>>

\* updateLastProcessedBlock lines 173-182: findOneAndUpdate.
hUlpbWrite(s, ok) ==
  /\ inv[s].pc = "ulpbWrite"
  /\ StoreCall(ok)
  /\ LET k == CDKey(inv[s].ev) IN
     IF ~ok THEN Goto(s, "findOne") /\ UNCHANGED contractData
     ELSE /\ Goto(s, AfterUlpb(s))
          /\ contractData' = [contractData EXCEPT
               ![k].lastProcessedBlock = inv[s].ev.blockNumber]
  /\ UNCHANGED <<eventStore, invoked, handled, dupKeyErrors, counted>>
  /\ UNCHANGED <<dispVars, pullVars, pushVars, callVars, svcVars, switchVars, largeVars, refreshVars, auxVars>>

\* setFirstSeenBlock lines 193-200: read the document and test it.
hSfsbRead(s, ok) ==
  /\ inv[s].pc = "sfsbRead"
  /\ StoreCall(ok)
  /\ LET doc == contractData[CDKey(inv[s].ev)] IN
     IF ~ok THEN Goto(s, "findOne")
     ELSE IF doc # NoDoc /\ (doc.firstSeenBlock = 0
                            \/ inv[s].ev.blockNumber < doc.firstSeenBlock)
       THEN Goto(s, "sfsbWrite")
       ELSE Goto(s, "updateMeta")
  /\ UNCHANGED <<eventStore, contractData, invoked, handled, dupKeyErrors, counted>>
  /\ UNCHANGED <<dispVars, pullVars, pushVars, callVars, svcVars, switchVars, largeVars, refreshVars, auxVars>>

\* setFirstSeenBlock lines 201-210: findOneAndUpdate.
hSfsbWrite(s, ok) ==
  /\ inv[s].pc = "sfsbWrite"
  /\ StoreCall(ok)
  /\ LET k == CDKey(inv[s].ev) IN
     IF ~ok THEN Goto(s, "findOne") /\ UNCHANGED contractData
     ELSE /\ Goto(s, "updateMeta")
          /\ contractData' = [contractData EXCEPT
               ![k].firstSeenBlock = inv[s].ev.blockNumber]
  /\ UNCHANGED <<eventStore, invoked, handled, dupKeyErrors, counted>>
  /\ UNCHANGED <<dispVars, pullVars, pushVars, callVars, svcVars, switchVars, largeVars, refreshVars, auxVars>>

\* The counters written by updateContract of the update branch (lines
\* 666-681), computed from the document read at line 607.
NextCounters(snap, large) ==
  [transferCount |-> snap.transferCount + 1,
   largeTransferCount |-> snap.largeTransferCount + (IF large THEN 1 ELSE 0)]

hUpdateMeta(s, ok) ==
  /\ inv[s].pc = "updateMeta"
  /\ StoreCall(ok)
  /\ Goto(s, "findOne")
  /\ LET k == CDKey(inv[s].ev)
         c == NextCounters(inv[s].snap, isLargeOf(inv[s].ev))
     IN IF ok /\ contractData[k] # NoDoc
          THEN /\ contractData' = [contractData EXCEPT
                    ![k].transferCount = c.transferCount,
                    ![k].largeTransferCount = c.largeTransferCount]
               /\ counted' = counted \cup {EventKey(inv[s].ev)}
          ELSE UNCHANGED <<contractData, counted>>
  /\ UNCHANGED <<eventStore, invoked, handled, dupKeyErrors>>
  /\ UNCHANGED <<dispVars, pullVars, pushVars, callVars, svcVars, switchVars, largeVars, refreshVars, auxVars>>

\* saveEvent lines 701-712: the existence check.  A store error is caught at
\* line 745 and logged.
hFindOne(s, ok) ==
  /\ inv[s].pc = "findOne"
  /\ StoreCall(ok)
  /\ IF ok /\ ~findOne(eventStore, inv[s].ev)
       THEN Goto(s, "save") /\ UNCHANGED handled
       ELSE Return(s)
  /\ UNCHANGED <<eventStore, contractData, invoked, dupKeyErrors, counted>>
  /\ UNCHANGED <<dispVars, pullVars, pushVars, callVars, svcVars, switchVars, largeVars, refreshVars, auxVars>>

\* saveEvent lines 739-755: insert; a duplicate-key error (11000) and any
\* other store error leave the collection as it was.
hSave(s, ok) ==
  /\ inv[s].pc = "save"
  /\ StoreCall(ok)
  /\ Return(s)
  /\ LET doc == EnhancedEvent(inv[s].ev) IN
     IF ~ok THEN UNCHANGED <<eventStore, dupKeyErrors>>
     ELSE IF UniqueIndexViolation(eventStore, doc)
       THEN dupKeyErrors' = dupKeyErrors + 1 /\ UNCHANGED eventStore
       ELSE eventStore' = Append(eventStore, doc) /\ UNCHANGED dupKeyErrors
  /\ UNCHANGED <<contractData, invoked, counted>>
  /\ UNCHANGED <<dispVars, pullVars, pushVars, callVars, svcVars, switchVars, largeVars, refreshVars, auxVars>>

\* ContractDataService.create: the exported service stores a document given
\* without block fields or counters.  The unique index on (contractAddress,
\* chainId) rejects a second document for the same contract.
create(k) ==
  /\ contractData[k] = NoDoc
  /\ contractData' = [contractData EXCEPT ![k] =
        [firstSeenBlock |-> 0, startFromBlock |-> 0, lastProcessedBlock |-> 0,
         transferCount |-> 0, largeTransferCount |-> 0]]
  /\ UNCHANGED <<eventStore, inv, invoked, handled, dupKeyErrors, counted>>
  /\ UNCHANGED storeErrors
  /\ UNCHANGED <<dispVars, pullVars, pushVars, callVars, svcVars, switchVars, largeVars, refreshVars, auxVars>>

\* The dispatcher awaits the handlers of one event before it pops the next
\* (processEventQueue lines 36-41), so the registered transfer handler is
\* invoked again only after its previous invocation has returned.
hStartSerial(ev) ==
  /\ \A t \in Slots : inv[t].pc = "idle"
  /\ hStart(1, ev)

HandlerSteps ==
  \E s \in Slots, ok \in BOOLEAN :
     \/ hFindData(s, ok)
     \/ hCreateUpsert(s, ok)
     \/ hCreateUpdate(s, ok)
     \/ hUlpbRead(s, ok)
     \/ hUlpbWrite(s, ok)
     \/ hSfsbRead(s, ok)
     \/ hSfsbWrite(s, ok)
     \/ hUpdateMeta(s, ok)
     \/ hFindOne(s, ok)
     \/ hSave(s, ok)

\* Invocations as the dispatcher issues them.
HandlerNext ==
  \/ \E ev \in HandlerEvents : hStartSerial(ev)
  \/ \E k \in ContractConfigKeys : create(k)
  \/ HandlerSteps

\* The logs with the same transactionHash and logIndex on two chains.
StoreEvents ==
  {ev \in HandlerEvents : ev.transactionHash = "t1" /\ ev.logIndex = 0}

\* handle() is entered while other invocations are suspended at an await;
\* the new invocation takes the first free slot.
hStartOverlapping(ev) ==
  \E s \in Slots :
     /\ invoked < MaxOverlapped
     /\ \A t \in Slots : t < s => inv[t].pc # "idle"
     /\ hStart(s, ev)

\* Invocations of several writers of the event store overlapping.
StoreNext ==
  \/ \E ev \in StoreEvents : hStartOverlapping(ev)
  \/ \E k \in ContractConfigKeys : create(k)
  \/ HandlerSteps


(***************************************************************************)
(* EvmBlockScanListener: the pull listener, with the chain it scans and    *)
(* the config store it loads its contracts from.                           *)
(***************************************************************************)
BlocksPerScan == 2

\* topic-0 hashes of the events a ContractConfig can list, and the table of
\* getEventNamesFromConfig that turns them into event names.
KnownEvents == {"Transfer", "Approval"}

\* The enabled ContractConfig documents of the listener's chain:
\* getEnabledContractsByChain(chainId), address -> configured events.
EnabledContracts == [A |-> <<"Transfer", "Approval">>, B |-> <<"Transfer">>]

\* What getEnabledContractsByChain returns when the contracts in enabled are
\* the enabled ones of the chain.
getEnabledContractsByChain(enabled) ==
  [c \in enabled |-> EnabledContracts[c]]

\* getEventNamesFromConfig: the configured hashes that are known events.
getEventNamesFromConfig(events) ==
  {events[i] : i \in {j \in 1..Len(events) : events[j] \in KnownEvents}}

\* The logs of the chain; a log of block b exists once head >= b.
ChainLogs ==
  { [blockNumber |-> 2, logIndex |-> 0, transactionHash |-> "t1",
     address |-> "A", eventName |-> "Transfer"],
    [blockNumber |-> 2, logIndex |-> 1, transactionHash |-> "t1",
     address |-> "A", eventName |-> "Approval"],
    [blockNumber |-> 3, logIndex |-> 0, transactionHash |-> "t2",
     address |-> "B", eventName |-> "Transfer"],
    [blockNumber |-> 3, logIndex |-> 1, transactionHash |-> "t2",
     address |-> "C", eventName |-> "Transfer"],
    [blockNumber |-> 4, logIndex |-> 0, transactionHash |-> "t3",
     address |-> "A", eventName |-> "Transfer"] }

\* The (contract, event name) log queries of one scan over snapshot cfgs.
Queries(cfgs) ==
  {<<a, e>> : a \in DOMAIN cfgs, e \in KnownEvents} \cap
  UNION {{<<a, e>> : e \in getEventNamesFromConfig(cfgs[a])} : a \in DOMAIN cfgs}

\* contract.queryFilter(filter, fromBlock, toBlock) of query q.
queryFilter(q, fromBlock, toBlock) ==
  {l \in ChainLogs : /\ l.address = q[1] /\ l.eventName = q[2]
                     /\ fromBlock <= l.blockNumber /\ l.blockNumber <= toBlock}

\* The comparator of allEvents.sort: block number, then log index.
LogBefore(a, b) ==
  \/ a.blockNumber < b.blockNumber
  \/ a.blockNumber = b.blockNumber /\ a.logIndex < b.logIndex

\* allEvents.sort(...): the logs of S in comparator order.
RECURSIVE SortEvents(_)
SortEvents(S) ==
  IF S = {} THEN <<>>
  ELSE LET m == CHOOSE x \in S : \A y \in S \ {x} : LogBefore(x, y)
       IN <<m>> \o SortEvents(S \ {m})

Min(a, b) == IF a <= b THEN a ELSE b

TickSlots == 1..MaxTicksInFlight
StartCalls == 1..MaxStartCalls

IdleTick == [pc |-> "idle", from |-> 0, to |-> 0, cfgs |-> <<>>,
             events |-> <<>>, idx |-> 0, failed |-> FALSE]

PullInit ==
  /\ head = 1
  /\ isRunning = FALSE
  /\ cursor = 0
  /\ scanInterval = 0
  /\ contractRefreshTimer = 0
  /\ liveTimers = {}
  /\ contractConfigs = <<>>
  /\ startPc = [c \in StartCalls |-> "idle"]
  /\ ticks = [t \in TickSlots |-> IdleTick]
  /\ enqueued = <<>>
  /\ firstCursor = 0
  /\ timersMade = 0
  /\ ticksFired = 0

\* The chain grows by one block.
newBlock ==
  /\ head < MaxHead
  /\ head' = head + 1
  /\ UNCHANGED <<isRunning, cursor, scanInterval, contractRefreshTimer,
                 liveTimers, contractConfigs, startPc, ticks, enqueued,
                 firstCursor, timersMade, ticksFired>>
  /\ UNCHANGED <<dispVars, handlerVars, pushVars, callVars, svcVars, switchVars, largeVars, refreshVars, auxVars>>

\* start() lines 60-62: set the flag and create the two interval timers.
StartTimers ==
  /\ isRunning' = TRUE
  /\ scanInterval' = timersMade + 1
  /\ contractRefreshTimer' = timersMade + 2
  /\ liveTimers' = liveTimers \cup {timersMade + 1, timersMade + 2}
  /\ timersMade' = timersMade + 2

\* The test of start() (line 53): the cursor has never been set.
CursorUnset_always(lastProcessedBlock) == TRUE

CursorUnset(lastProcessedBlock) == lastProcessedBlock = 0

\* The test of start() (line 41): the listener is already running.
AlreadyRunning_never(running) == FALSE

AlreadyRunning(running) == running

\* The test of stop() (line 77): the listener is not running.
NotRunning(running) == ~running

\* start() lines 48-50, entered by call c: await loadContracts().
StartBody(c) ==
  /\ startPc[c] = "idle"
  /\ timersMade + 2 <= MaxTimers
  /\ startPc' = [startPc EXCEPT ![c] = "load"]
  /\ UNCHANGED <<head, isRunning, cursor, scanInterval, contractRefreshTimer,
                 liveTimers, contractConfigs, ticks, enqueued,
                 firstCursor, timersMade, ticksFired>>

\* start() lines 40-50: return if running, else await loadContracts().
startBegin(c) ==
  /\ ~AlreadyRunning(isRunning)
  /\ StartBody(c)
  /\ UNCHANGED <<dispVars, handlerVars, pushVars, callVars, svcVars, switchVars, largeVars, refreshVars, auxVars>>

\* loadContracts() has settled: on failure start() throws; otherwise the
\* snapshot is replaced and start() goes on at line 53.
startLoaded(c, ok) ==
  /\ startPc[c] = "load"
  /\ IF ~ok
       THEN /\ startPc' = [startPc EXCEPT ![c] = "idle"]
            /\ UNCHANGED <<isRunning, scanInterval, contractRefreshTimer,
                           liveTimers, contractConfigs, timersMade, firstCursor>>
       ELSE /\ contractConfigs' = getEnabledContractsByChain(storeEnabled)
            /\ IF CursorUnset(cursor)
                 THEN /\ startPc' = [startPc EXCEPT ![c] = "head"]
                      /\ UNCHANGED <<isRunning, scanInterval, contractRefreshTimer,
                                     liveTimers, timersMade, firstCursor>>
                 ELSE /\ startPc' = [startPc EXCEPT ![c] = "idle"]
                      /\ StartTimers
                      /\ UNCHANGED firstCursor
  /\ UNCHANGED <<head, cursor, ticks, enqueued, ticksFired>>
  /\ UNCHANGED <<dispVars, handlerVars, pushVars, callVars, svcVars, switchVars, largeVars, refreshVars, auxVars>>

\* start() line 54: provider.getBlockNumber() has settled.
startHead(c, ok) ==
  /\ startPc[c] = "head"
  /\ startPc' = [startPc EXCEPT ![c] = "idle"]
  /\ IF ~ok
       THEN UNCHANGED <<isRunning, cursor, scanInterval, contractRefreshTimer,
                        liveTimers, timersMade, firstCursor>>
       ELSE /\ cursor' = head
            /\ firstCursor' = head
            /\ StartTimers
  /\ UNCHANGED <<head, contractConfigs, ticks, enqueued, ticksFired>>
  /\ UNCHANGED <<dispVars, handlerVars, pushVars, callVars, svcVars, switchVars, largeVars, refreshVars, auxVars>>

\* stop() lines 83-98, after the guard.
PullStopBody ==
  /\ isRunning' = FALSE
  /\ scanInterval' = 0
  /\ contractRefreshTimer' = 0
  /\ liveTimers' = liveTimers \ {scanInterval, contractRefreshTimer}
  /\ UNCHANGED <<head, cursor, contractConfigs, startPc, ticks, enqueued,
                 firstCursor, timersMade, ticksFired>>

\* stop() lines 76-99.
stop ==
  /\ ~NotRunning(isRunning)
  /\ PullStopBody
  /\ UNCHANGED <<dispVars, handlerVars, pushVars, callVars, svcVars, switchVars, largeVars, refreshVars, auxVars>>

\* The callback of startScanning (lines 183-194) fires: it returns when the
\* listener is not running, else scanForNewBlocks asks for the head block.
scanTick(tm, t) ==
  /\ tm \in liveTimers
  /\ tm % 2 = 1
  /\ isRunning
  /\ ticks[t].pc = "idle"
  /\ ticksFired < MaxTicks
  /\ ticksFired' = ticksFired + 1
  /\ ticks' = [ticks EXCEPT ![t] = [IdleTick EXCEPT !.pc = "head"]]
  /\ UNCHANGED <<head, isRunning, cursor, scanInterval, contractRefreshTimer,
                 liveTimers, contractConfigs, startPc, enqueued,
                 firstCursor, timersMade>>
  /\ UNCHANGED <<dispVars, handlerVars, pushVars, callVars, svcVars, switchVars, largeVars, refreshVars, auxVars>>

\* scanForNewBlocks line 240: this.lastProcessedBlock = endBlock, reached
\* when processBlockRangeWithBatching has returned.
FinishScan(t, endBlock) ==
  /\ cursor' = endBlock
  /\ ticks' = [ticks EXCEPT ![t] = IdleTick]

\* scanForNewBlocks lines 229-232 with no cap: the range runs to the head.
EndBlock_uncapped(latestBlock, startBlock) == latestBlock

\* scanForNewBlocks lines 229-232: Math.min(latestBlock, startBlock +
\* blocksPerScan - 1).
EndBlock(latestBlock, startBlock) ==
  Min(latestBlock, startBlock + BlocksPerScan - 1)

\* scanForNewBlocks lines 218-238 and processBlockRangeWithBatching lines
\* 260-269: getBlockNumber() has settled; choose the range and start the
\* log queries over the current contract snapshot.
tickHead(t, ok) ==
  /\ ticks[t].pc = "head"
  /\ IF ~ok \/ head <= cursor
       THEN /\ ticks' = [ticks EXCEPT ![t] = IdleTick]
            /\ UNCHANGED cursor
       ELSE LET startBlock == cursor + 1
                endBlock == EndBlock(head, startBlock)
            IN IF DOMAIN contractConfigs = {}
                 THEN /\ cursor' = endBlock
                      /\ ticks' = [ticks EXCEPT ![t] = IdleTick]
                 ELSE /\ ticks' = [ticks EXCEPT ![t] =
                                    [IdleTick EXCEPT !.pc = "query",
                                                     !.from = startBlock,
                                                     !.to = endBlock,
                                                     !.cfgs = contractConfigs]]
                      /\ UNCHANGED cursor
  /\ UNCHANGED <<head, isRunning, scanInterval, contractRefreshTimer,
                 liveTimers, contractConfigs, startPc, enqueued, firstCursor,
                 timersMade, ticksFired>>
  /\ UNCHANGED <<dispVars, handlerVars, pushVars, callVars, svcVars, switchVars, largeVars, refreshVars, auxVars>>

\* getAllContractEventsInRange lines 319-320: processBatches is handed
\* this.contractConfigs and cuts it into batches (line 125) before its first
\* await, so the queries of a tick run over the array the field held then.
QueriedConfigs_current(t) == contractConfigs

QueriedConfigs(t) == ticks[t].cfgs

\* getAllContractEventsInRange lines 316-435: every (contract, event) query
\* has settled; the queries in failed threw and contributed nothing (catch
\* at line 359); the collected logs are sorted.
tickQueried(t, failed) ==
  /\ ticks[t].pc = "query"
  /\ failed \subseteq Queries(QueriedConfigs(t))
  /\ Cardinality(failed) <= MaxFailedQueries
  /\ LET found == UNION {queryFilter(q, ticks[t].from, ticks[t].to) :
                           q \in Queries(QueriedConfigs(t)) \ failed}
     IN ticks' = [ticks EXCEPT ![t].pc = "loop",
                               ![t].events = SortEvents(found),
                               ![t].idx = 1,
                               ![t].failed = (failed # {})]
  /\ UNCHANGED <<head, isRunning, cursor, scanInterval, contractRefreshTimer,
                 liveTimers, contractConfigs, startPc, enqueued,
                 firstCursor, timersMade, ticksFired>>
  /\ UNCHANGED <<dispVars, handlerVars, pushVars, callVars, svcVars, switchVars, largeVars, refreshVars, auxVars>>

\* processBlockRangeWithBatching lines 286-289: the loop over the sorted
\* events; it leaves at the end of the list or when the listener has been
\* stopped, and scanForNewBlocks then sets the cursor.  Otherwise
\* processContractEvent asks for the transaction receipt.
tickLoop(t) ==
  /\ ticks[t].pc = "loop"
  /\ IF ticks[t].idx > Len(ticks[t].events) \/ ~isRunning
       THEN FinishScan(t, ticks[t].to)
       ELSE /\ ticks' = [ticks EXCEPT ![t].pc = "receipt"]
            /\ UNCHANGED cursor
  /\ UNCHANGED <<head, isRunning, scanInterval, contractRefreshTimer,
                 liveTimers, contractConfigs, startPc, enqueued, firstCursor,
                 timersMade, ticksFired>>
  /\ UNCHANGED <<dispVars, handlerVars, pushVars, callVars, svcVars, switchVars, largeVars, refreshVars, auxVars>>

\* processContractEvent lines 462-518: getTransactionReceipt has settled.
\* Without a receipt (null or an error) the log is skipped; with one the
\* BlockchainEvent is built and passed to dispatchEvent.
tickReceipt(t, ok) ==
  /\ ticks[t].pc = "receipt"
  /\ LET log == ticks[t].events[ticks[t].idx] IN
     IF ok
       THEN /\ enqueued' = Append(enqueued, log)
            /\ ticks' = [ticks EXCEPT ![t].pc = "loop", ![t].idx = @ + 1]
       ELSE /\ ticks' = [ticks EXCEPT ![t].pc = "loop", ![t].idx = @ + 1,
                                      ![t].failed = TRUE]
            /\ UNCHANGED enqueued
  /\ UNCHANGED <<head, isRunning, cursor, scanInterval, contractRefreshTimer,
                 liveTimers, contractConfigs, startPc, firstCursor,
                 timersMade, ticksFired>>
  /\ UNCHANGED <<dispVars, handlerVars, pushVars, callVars, svcVars, switchVars, largeVars, refreshVars, auxVars>>

PullNext ==
  \/ newBlock
  \/ \E c \in StartCalls : startBegin(c)
  \/ \E c \in StartCalls, ok \in BOOLEAN : startLoaded(c, ok)
  \/ \E c \in StartCalls, ok \in BOOLEAN : startHead(c, ok)
  \/ stop
  \/ \E tm \in 1..MaxTimers, t \in TickSlots : scanTick(tm, t)
  \/ \E t \in TickSlots, ok \in BOOLEAN : tickHead(t, ok)
  \/ \E t \in TickSlots, failed \in SUBSET Queries(EnabledContracts) :
        tickQueried(t, failed)
  \/ \E t \in TickSlots : tickLoop(t)
  \/ \E t \in TickSlots, ok \in BOOLEAN : tickReceipt(t, ok)

(***************************************************************************)
(* The BlockchainEvent each listener builds for a log, and canHandle of    *)
(* the transfer handler.                                                   *)
(***************************************************************************)
\* topic 0 of a log: the hash of its event (knownEvents / knownSignatures).
TransferHash == "0xddf252ad"
ApprovalHash == "0x8c5be1e5"
getEventSignature(eventName) ==
  IF eventName = "Transfer" THEN TransferHash
  ELSE IF eventName = "Approval" THEN ApprovalHash ELSE ""

\* The topics of the on-chain log.
LogTopics(l) == <<getEventSignature(l.eventName)>>

\* EvmBlockScanListener.processContractEvent: the event built for log l.
pullEvent(l) ==
  [eventType |-> "contract_log", contractAddress |-> l.address,
   blockNumber |-> l.blockNumber, transactionHash |-> l.transactionHash,
   topics |-> <<>>, logIndex |-> l.logIndex,
   event |-> [name |-> l.eventName, signature |-> getEventSignature(l.eventName)]]

\* EvmWebSocketListener.processContractEvent: the event built for log l.
pushEvent(l) ==
  [eventType |-> "contract_log", contractAddress |-> l.address,
   blockNumber |-> l.blockNumber, transactionHash |-> l.transactionHash,
   topics |-> LogTopics(l), logIndex |-> l.logIndex,
   event |-> [name |-> l.eventName, signature |-> getEventSignature(l.eventName)]]

\* ERC20TransferHandler.isTransferEvent: topics[0] is the Transfer hash.
isTransferEvent(ev) ==
  IF Len(ev.topics) = 0 THEN FALSE ELSE ev.topics[1] = TransferHash

\* ERC20TransferHandler.canHandle
transferCanHandle(ev) ==
  /\ ev.eventType = "contract_log"
  /\ ev.contractAddress # ""
  /\ isTransferEvent(ev)

(***************************************************************************)
(* EvmWebSocketListener: the push listener.                                *)
(***************************************************************************)
MaxReconnectAttempts == 5

LoadCallers == {"start", "refresh", "reconnect"}

\* The logs of the chain in the order the chain emits them.
PushLogs == SubSeq(SortEvents(ChainLogs), 1, MaxPushLogs)

\* setupContract / setupEventListener: a listener exists for the known
\* events of each enabled contract.
HasListener(l) ==
  /\ l.address \in DOMAIN EnabledContracts
  /\ l.eventName \in getEventNamesFromConfig(EnabledContracts[l.address])

LoadsInFlight == loads["start"] + loads["refresh"] + loads["reconnect"]

PushInit ==
  /\ wsRunning = FALSE
  /\ reconnectAttempts = 0
  /\ reconnectDelay = 0
  /\ reconnectTimer = "null"
  /\ refreshTimer = "null"
  /\ orphanReconnects = 0
  /\ orphanRefreshes = 0
  /\ subscribed = FALSE
  /\ errorHandler = FALSE
  /\ loads = [k \in LoadCallers |-> 0]
  /\ wsInFlight = {}
  /\ notified = 0
  /\ received = <<>>
  /\ wsEnqueued = <<>>
  /\ failedReconnects = 0
  /\ exhausted = FALSE
  /\ wsErrors = 0
  /\ wsStarts = 0
  /\ refreshes = 0

\* loadAndSetupContracts is entered by caller k and awaits
\* getEnabledContractsByChain.
LoadBegin(k) ==
  /\ LoadsInFlight < MaxLoadsInFlight
  /\ loads' = [loads EXCEPT ![k] = @ + 1]

\* loadAndSetupContracts after its await: the old listeners are removed and
\* the contract listeners and the 'error' listener are attached.
LoadSetup ==
  /\ subscribed' = TRUE
  /\ errorHandler' = TRUE

\* removeAllListeners
removeAllListeners ==
  /\ subscribed' = FALSE
  /\ errorHandler' = FALSE

\* start() lines 242-250: return if running, else await
\* loadAndSetupContracts().
wsStartBegin ==
  /\ wsStarts < MaxWsStarts
  /\ wsStarts' = wsStarts + 1
  /\ IF AlreadyRunning(wsRunning)
       THEN UNCHANGED loads
       ELSE LoadBegin("start")
  /\ UNCHANGED <<wsRunning, reconnectAttempts, reconnectDelay, reconnectTimer, refreshTimer,
                 orphanReconnects, orphanRefreshes, subscribed, errorHandler,
                 wsInFlight, notified, received, wsEnqueued, failedReconnects,
                 exhausted, wsErrors, refreshes>>
  /\ UNCHANGED <<dispVars, handlerVars, pullVars, callVars, svcVars, switchVars, largeVars, refreshVars, auxVars>>

\* start() lines 251-264: the load has settled.  On success the refresh
\* interval is created (the field is overwritten), the flag is set and the
\* attempt counter is reset; on failure start() throws.
wsStartLoaded(ok) ==
  /\ loads["start"] > 0
  /\ loads' = [loads EXCEPT !["start"] = @ - 1]
  /\ IF ok
       THEN /\ LoadSetup
            /\ refreshTimer' = "live"
            /\ orphanRefreshes' = orphanRefreshes +
                                    (IF refreshTimer = "live" THEN 1 ELSE 0)
            /\ wsRunning' = TRUE
            /\ reconnectAttempts' = 0
            /\ reconnectDelay' = 0
            /\ failedReconnects' = 0
            /\ exhausted' = FALSE
       ELSE UNCHANGED <<subscribed, errorHandler, refreshTimer, orphanRefreshes,
                        wsRunning, reconnectAttempts, reconnectDelay, failedReconnects,
                        exhausted>>
  /\ UNCHANGED <<reconnectTimer, orphanReconnects, wsInFlight, notified,
                 received, wsEnqueued, wsErrors, wsStarts, refreshes>>
  /\ UNCHANGED <<dispVars, handlerVars, pullVars, callVars, svcVars, switchVars, largeVars, refreshVars, auxVars>>

\* The body of stop() after its guard (lines 275-297).
StopBody ==
  /\ wsRunning' = FALSE
  /\ reconnectTimer' = "null"
  /\ refreshTimer' = "null"
  /\ removeAllListeners

\* stop() lines 267-298.
wsStop ==
  /\ ~NotRunning(wsRunning)
  /\ StopBody
  /\ UNCHANGED <<reconnectAttempts, reconnectDelay, orphanReconnects, orphanRefreshes, loads,
                 wsInFlight, notified, received, wsEnqueued, failedReconnects,
                 exhausted, wsErrors, wsStarts, refreshes>>
  /\ UNCHANGED <<dispVars, handlerVars, pullVars, callVars, svcVars, switchVars, largeVars, refreshVars, auxVars>>

RECURSIVE Pow2(_)
Pow2(n) == IF n = 0 THEN 1 ELSE 2 * Pow2(n - 1)

\* handleConnectionError line 669: Math.pow(2, this.reconnectAttempts) * 1000.
ReconnectDelay(attempts) == Pow2(attempts) * 1000

\* handleConnectionError lines 658-687.
handleConnectionError ==
  IF ~wsRunning
    THEN UNCHANGED <<wsRunning, reconnectAttempts, reconnectDelay, reconnectTimer, refreshTimer,
                     orphanReconnects, subscribed, errorHandler, exhausted>>
  ELSE IF reconnectAttempts >= MaxReconnectAttempts
    THEN /\ StopBody
         /\ exhausted' = TRUE
         /\ UNCHANGED <<reconnectAttempts, reconnectDelay, orphanReconnects>>
    ELSE /\ reconnectDelay' = ReconnectDelay(reconnectAttempts)
         /\ reconnectAttempts' = reconnectAttempts + 1
         /\ reconnectTimer' = "pending"
         /\ orphanReconnects' = orphanReconnects +
                                  (IF reconnectTimer = "pending" THEN 1 ELSE 0)
         /\ UNCHANGED <<wsRunning, refreshTimer, subscribed, errorHandler,
                        exhausted>>

\* The provider emits 'error' and the listener attached by
\* loadAndSetupContracts (lines 322-325) runs handleConnectionError.
wsError ==
  /\ errorHandler
  /\ wsErrors < MaxWsErrors
  /\ wsErrors' = wsErrors + 1
  /\ handleConnectionError
  /\ UNCHANGED <<orphanRefreshes, loads, wsInFlight, notified, received,
                 wsEnqueued, failedReconnects, wsStarts, refreshes>>
  /\ UNCHANGED <<dispVars, handlerVars, pullVars, callVars, svcVars, switchVars, largeVars, refreshVars, auxVars>>

\* A reconnect timeout fires (lines 677-686): reconnect() removes the
\* listeners and awaits loadAndSetupContracts().
reconnectFire(held) ==
  /\ IF held
       THEN /\ reconnectTimer = "pending"
            /\ reconnectTimer' = "fired"
            /\ UNCHANGED orphanReconnects
       ELSE /\ orphanReconnects > 0
            /\ orphanReconnects' = orphanReconnects - 1
            /\ UNCHANGED reconnectTimer
  /\ removeAllListeners
  /\ LoadBegin("reconnect")
  /\ UNCHANGED <<wsRunning, reconnectAttempts, reconnectDelay, refreshTimer, orphanRefreshes,
                 wsInFlight, notified, received, wsEnqueued, failedReconnects,
                 exhausted, wsErrors, wsStarts, refreshes>>
  /\ UNCHANGED <<dispVars, handlerVars, pullVars, callVars, svcVars, switchVars, largeVars, refreshVars, auxVars>>

\* reconnect() lines 689-696 has settled: success resets the attempt
\* counter, failure is caught at line 680 and handleConnectionError runs.
reconnectLoaded(ok) ==
  /\ loads["reconnect"] > 0
  /\ loads' = [loads EXCEPT !["reconnect"] = @ - 1]
  /\ IF ok
       THEN /\ LoadSetup
            /\ reconnectAttempts' = 0
            /\ reconnectDelay' = 0
            /\ failedReconnects' = 0
            /\ UNCHANGED <<wsRunning, reconnectTimer, refreshTimer,
                           orphanReconnects, exhausted>>
       ELSE /\ failedReconnects' = failedReconnects + 1
            /\ handleConnectionError
  /\ UNCHANGED <<orphanRefreshes, wsInFlight, notified, received, wsEnqueued,
                 wsErrors, wsStarts, refreshes>>
  /\ UNCHANGED <<dispVars, handlerVars, pullVars, callVars, svcVars, switchVars, largeVars, refreshVars, auxVars>>

\* A refresh interval fires (lines 644-656) while the listener is running.
refreshFire(held) ==
  /\ IF held THEN refreshTimer = "live" ELSE orphanRefreshes > 0
  /\ wsRunning
  /\ refreshes < MaxRefreshes
  /\ refreshes' = refreshes + 1
  /\ LoadBegin("refresh")
  /\ UNCHANGED <<wsRunning, reconnectAttempts, reconnectDelay, reconnectTimer, refreshTimer,
                 orphanReconnects, orphanRefreshes, subscribed, errorHandler,
                 wsInFlight, notified, received, wsEnqueued, failedReconnects,
                 exhausted, wsErrors, wsStarts>>
  /\ UNCHANGED <<dispVars, handlerVars, pullVars, callVars, svcVars, switchVars, largeVars, refreshVars, auxVars>>

\* The load of a refresh has settled; a failure is logged.
refreshLoaded(ok) ==
  /\ loads["refresh"] > 0
  /\ loads' = [loads EXCEPT !["refresh"] = @ - 1]
  /\ IF ok THEN LoadSetup ELSE UNCHANGED <<subscribed, errorHandler>>
  /\ UNCHANGED <<wsRunning, reconnectAttempts, reconnectDelay, reconnectTimer, refreshTimer,
                 orphanReconnects, orphanRefreshes, wsInFlight, notified,
                 received, wsEnqueued, failedReconnects, exhausted, wsErrors,
                 wsStarts, refreshes>>
  /\ UNCHANGED <<dispVars, handlerVars, pullVars, callVars, svcVars, switchVars, largeVars, refreshVars, auxVars>>

\* The chain emits its next log.  With a listener attached the callback of
\* setupEventListener (lines 391-418) runs: it returns when the listener is
\* not running, else processContractEvent awaits receipt and block.
logNotify ==
  /\ notified < Len(PushLogs)
  /\ notified' = notified + 1
  /\ LET n == notified + 1 IN
     IF subscribed /\ HasListener(PushLogs[n]) /\ wsRunning
          /\ Cardinality(wsInFlight) < MaxCallbacks
       THEN /\ received' = Append(received, n)
            /\ wsInFlight' = wsInFlight \cup {n}
       ELSE UNCHANGED <<received, wsInFlight>>
  /\ UNCHANGED <<wsRunning, reconnectAttempts, reconnectDelay, reconnectTimer, refreshTimer,
                 orphanReconnects, orphanRefreshes, subscribed, errorHandler,
                 loads, wsEnqueued, failedReconnects, exhausted, wsErrors,
                 wsStarts, refreshes>>
  /\ UNCHANGED <<dispVars, handlerVars, pullVars, callVars, svcVars, switchVars, largeVars, refreshVars, auxVars>>

\* processContractEvent lines 481-523: Promise.all([receipt, block]) of
\* notification n has settled; without both (null or an error) the log is
\* skipped, with both the event is built and passed to dispatchEvent.
wsFetched(n, ok) ==
  /\ n \in wsInFlight
  /\ wsInFlight' = wsInFlight \ {n}
  /\ IF ok THEN wsEnqueued' = Append(wsEnqueued, n) ELSE UNCHANGED wsEnqueued
  /\ UNCHANGED <<wsRunning, reconnectAttempts, reconnectDelay, reconnectTimer, refreshTimer,
                 orphanReconnects, orphanRefreshes, subscribed, errorHandler,
                 loads, notified, received, failedReconnects, exhausted,
                 wsErrors, wsStarts, refreshes>>
  /\ UNCHANGED <<dispVars, handlerVars, pullVars, callVars, svcVars, switchVars, largeVars, refreshVars, auxVars>>

PushNext ==
  \/ wsStartBegin
  \/ \E ok \in BOOLEAN : wsStartLoaded(ok)
  \/ wsStop
  \/ wsError
  \/ \E held \in BOOLEAN : reconnectFire(held)
  \/ \E ok \in BOOLEAN : reconnectLoaded(ok)
  \/ \E held \in BOOLEAN : refreshFire(held)
  \/ \E ok \in BOOLEAN : refreshLoaded(ok)
  \/ logNotify
  \/ \E n \in 1..MaxPushLogs, ok \in BOOLEAN : wsFetched(n, ok)

(***************************************************************************)
(* start() and stop() of both listener kinds as calls made by a caller,    *)
(* including the calls that return at the guard.                           *)
(***************************************************************************)
CallInit ==
  /\ lastCall = [op |-> "none", running |-> FALSE]
  /\ callTick = FALSE

\* A call of operation name on a listener whose flag is running.
RecordCall(name, running) ==
  /\ lastCall' = [op |-> name, running |-> running]
  /\ callTick' = ~callTick

pullStartCall(c) ==
  /\ RecordCall("pull.start", isRunning)
  /\ IF AlreadyRunning(isRunning) THEN UNCHANGED pullVars ELSE StartBody(c)
  /\ UNCHANGED <<dispVars, handlerVars, pushVars, svcVars, switchVars, largeVars, refreshVars, auxVars>>

pullStopCall ==
  /\ RecordCall("pull.stop", isRunning)
  /\ IF NotRunning(isRunning) THEN UNCHANGED pullVars ELSE PullStopBody
  /\ UNCHANGED <<dispVars, handlerVars, pushVars, svcVars, switchVars, largeVars, refreshVars, auxVars>>

pushStartCall ==
  /\ RecordCall("push.start", wsRunning)
  /\ wsStarts < MaxWsStarts
  /\ wsStarts' = wsStarts + 1
  /\ IF AlreadyRunning(wsRunning)
       THEN UNCHANGED loads
       ELSE LoadBegin("start")
  /\ UNCHANGED <<wsRunning, reconnectAttempts, reconnectDelay, reconnectTimer, refreshTimer,
                 orphanReconnects, orphanRefreshes, subscribed, errorHandler,
                 wsInFlight, notified, received, wsEnqueued, failedReconnects,
                 exhausted, wsErrors, refreshes>>
  /\ UNCHANGED <<dispVars, handlerVars, pullVars, svcVars, switchVars, largeVars, refreshVars, auxVars>>

pushStopCall ==
  /\ RecordCall("push.stop", wsRunning)
  /\ IF NotRunning(wsRunning)
       THEN UNCHANGED <<wsRunning, reconnectTimer, refreshTimer, subscribed,
                        errorHandler>>
       ELSE StopBody
  /\ UNCHANGED <<reconnectAttempts, reconnectDelay, orphanReconnects, orphanRefreshes, loads,
                 wsInFlight, notified, received, wsEnqueued, failedReconnects,
                 exhausted, wsErrors, wsStarts, refreshes>>
  /\ UNCHANGED <<dispVars, handlerVars, pullVars, svcVars, switchVars, largeVars, refreshVars, auxVars>>

LifecycleNext ==
  \/ \E c \in StartCalls : pullStartCall(c)
  \/ \E c \in StartCalls, ok \in BOOLEAN : startLoaded(c, ok)
  \/ \E c \in StartCalls, ok \in BOOLEAN : startHead(c, ok)
  \/ pullStopCall
  \/ pushStartCall
  \/ \E ok \in BOOLEAN : wsStartLoaded(ok)
  \/ pushStopCall
  \/ wsError

(***************************************************************************)
(* BlockchainService, SdkRegistryService, ListenerFactoryService and       *)
(* EvmSdkService: the chains, their adapters and their listeners.  A       *)
(* listener is seen here through IBlockchainListener only.  One service    *)
(* operation runs at a time; each await is a step.                         *)
(***************************************************************************)
Chains == {1, 2}

\* getEnabledChainConfigs(), in the order startListeners walks it.
EnabledConfigs == <<1, 2>>

\* enum EventStrategy.
Strategies == {"websocket", "block_scan", "hybrid"}

\* The keys of activeListeners: `${chainId}-${strategy}`.
ListenerKeys == Chains \X Strategies

Idle == [name |-> "idle", chain |-> 0, arg |-> "none", pc |-> "idle", i |-> 0]

KeysOf(c) == {k \in ListenerKeys : k[1] = c}

NoSwitch == [chain |-> 0, strategy |-> "none", running |-> {}]

\* The history of a switchStrategy call is kept until the call ends.
KeepSwitchFrom ==
  switchFrom' = IF op' = Idle THEN NoSwitch ELSE switchFrom

ServiceInit ==
  /\ strategy = [c \in Chains |-> "block_scan"]
  /\ advertised = [c \in Chains |-> c]
  /\ sdks = {}
  /\ wsProvider = [c \in Chains |-> FALSE]
  /\ activeListeners = [k \in ListenerKeys |-> "none"]
  /\ listenerRunning = [k \in ListenerKeys |-> FALSE]
  /\ op = Idle
  /\ phase = "init"
  /\ connects = [c \in Chains |-> 0]
  /\ mismatches = [c \in Chains |-> 0]
  /\ slState = "none"
  /\ outcome = [c \in Chains |-> "pending"]
  /\ lastStart = [c \in Chains |-> [strategy |-> "none", result |-> "none"]]
  /\ serviceOps = 0
  /\ shListeners = {}
  /\ settled = {}
  /\ shSdks = {}
  /\ disconnected = {}
  /\ failures = {}
  /\ switchFrom = NoSwitch

\* EvmSdkService.createListener: the kind of listener built for a strategy, or
\* "error" where it throws.  ws and http say whether wsProvider and provider
\* are non-null.
createListener(s, ws, http) ==
  CASE s = "websocket" -> IF ws THEN "push" ELSE "error"
    [] s = "block_scan" -> IF http THEN "pull" ELSE "error"
    [] s = "hybrid" -> IF ws THEN "push" ELSE IF http THEN "pull" ELSE "error"
    [] OTHER -> "error"

\* The for loop of startListeners moves to the next configuration, or ends.
NextConfig(o) ==
  IF o.i < Len(EnabledConfigs)
    THEN [o EXCEPT !.i = o.i + 1, !.chain = EnabledConfigs[o.i + 1],
                   !.pc = "getSDK"]
    ELSE Idle

\* An exception of the loop body that nothing catches ends startListeners.
Caught_rethrown(o) == Idle

\* The catch of startListeners (lines 44-46) logs and the loop goes on.
Caught(o) == NextConfig(o)

\* The operation o has finished its work for one chain.
Finish(o, failed) ==
  IF o.name = "startListeners"
    THEN IF failed THEN Caught(o) ELSE NextConfig(o)
    ELSE Idle

\* What a finished step records for startListeners.
Record(o, result) ==
  /\ outcome' = IF o.name = "startListeners"
                  THEN [outcome EXCEPT ![o.chain] = result]
                  ELSE outcome
  /\ lastStart' = IF o.name \in {"startListeners", "restartListener",
                                 "switchStrategy"}
                    THEN [lastStart EXCEPT ![o.chain] =
                            [strategy |-> strategy[o.chain], result |-> result]]
                    ELSE lastStart

EndOp(o, failed) ==
  /\ op' = Finish(o, failed)
  /\ slState' = IF o.name = "startListeners" /\ Finish(o, failed) = Idle
                  THEN "done" ELSE slState

\* ListenerFactoryService.stopListener up to the end of listener.stop().
stopListener(k, ok) ==
  listenerRunning' =
    IF activeListeners[k] # "none" /\ listenerRunning[k] /\ ok
      THEN [listenerRunning EXCEPT ![k] = FALSE]
      ELSE listenerRunning

\* The chain configurations are in place: each chain's strategy, and the
\* chain id its endpoint answers with.
configLoaded(st, adv) ==
  /\ phase = "init"
  /\ phase' = "up"
  /\ strategy' = st
  /\ advertised' = adv
  /\ UNCHANGED <<sdks, wsProvider, activeListeners, listenerRunning, op,
                 connects, mismatches, slState, outcome, lastStart,
                 serviceOps, shListeners, settled, shSdks, disconnected,
                 failures>>
  /\ KeepSwitchFrom
  /\ UNCHANGED <<dispVars, handlerVars, pullVars, pushVars, callVars, switchVars, largeVars, refreshVars, auxVars>>

\* BlockchainService.startListeners is called.
startListenersCall ==
  /\ phase = "up" /\ op = Idle /\ slState = "none"
  /\ op' = [name |-> "startListeners", chain |-> EnabledConfigs[1],
            arg |-> "none", pc |-> "getSDK", i |-> 1]
  /\ slState' = "running"
  /\ UNCHANGED <<strategy, advertised, sdks, wsProvider, activeListeners,
                 listenerRunning, phase, connects, mismatches, outcome,
                 lastStart, serviceOps, shListeners, settled, shSdks,
                 disconnected, failures>>
  /\ KeepSwitchFrom
  /\ UNCHANGED <<dispVars, handlerVars, pullVars, pushVars, callVars, switchVars, largeVars, refreshVars, auxVars>>

\* BlockchainService.restartListener(c) lines 56-63.
restartListenerCall(c, ok) ==
  /\ phase = "up" /\ op = Idle /\ serviceOps < MaxServiceOps
  /\ ok \/ listenerRunning[<<c, strategy[c]>>]
  /\ serviceOps' = serviceOps + 1
  /\ stopListener(<<c, strategy[c]>>, ok)
  /\ op' = IF ok THEN [name |-> "restartListener", chain |-> c, arg |-> "none",
                       pc |-> "getSDK", i |-> 0]
                 ELSE Idle
  /\ UNCHANGED <<strategy, advertised, sdks, wsProvider, activeListeners,
                 phase, connects, mismatches, slState, outcome, lastStart,
                 shListeners, settled, shSdks, disconnected, failures>>
  /\ KeepSwitchFrom
  /\ UNCHANGED <<dispVars, handlerVars, pullVars, pushVars, callVars, switchVars, largeVars, refreshVars, auxVars>>

\* BlockchainService.switchStrategy(c, s) lines 98-105.
switchStrategyCall(c, s, ok) ==
  /\ phase = "up" /\ op = Idle /\ serviceOps < MaxServiceOps
  /\ ok \/ listenerRunning[<<c, strategy[c]>>]
  /\ serviceOps' = serviceOps + 1
  /\ stopListener(<<c, strategy[c]>>, ok)
  /\ op' = IF ok THEN [name |-> "switchStrategy", chain |-> c, arg |-> s,
                       pc |-> "getSDK", i |-> 0]
                 ELSE Idle
  /\ UNCHANGED <<strategy, advertised, sdks, wsProvider, activeListeners,
                 phase, connects, mismatches, slState, outcome, lastStart,
                 shListeners, settled, shSdks, disconnected, failures>>
  /\ switchFrom' = IF ok THEN [chain |-> c, strategy |-> strategy[c],
                                running |-> {k \in KeysOf(c) : listenerRunning[k]}]
                          ELSE NoSwitch
  /\ UNCHANGED <<dispVars, handlerVars, pullVars, pushVars, callVars, switchVars, largeVars, refreshVars, auxVars>>

\* BlockchainService.getChainStatus(c) lines 119-125.
getChainStatusCall(c) ==
  /\ phase = "up" /\ op = Idle /\ serviceOps < MaxServiceOps
  /\ serviceOps' = serviceOps + 1
  /\ op' = [name |-> "getChainStatus", chain |-> c, arg |-> "none",
            pc |-> "getSDK", i |-> 0]
  /\ UNCHANGED <<strategy, advertised, sdks, wsProvider, activeListeners,
                 listenerRunning, phase, connects, mismatches, slState,
                 outcome, lastStart, shListeners, settled, shSdks,
                 disconnected, failures>>
  /\ KeepSwitchFrom
  /\ UNCHANGED <<dispVars, handlerVars, pullVars, pushVars, callVars, switchVars, largeVars, refreshVars, auxVars>>

\* switchStrategy line 108, then SdkRegistryService.getSDK lines 28-50: a
\* cached adapter is returned, anything else goes to factory() and connect().
getSDK ==
  /\ op.pc = "getSDK"
  /\ strategy' = IF op.name = "switchStrategy"
                   THEN [strategy EXCEPT ![op.chain] = op.arg]
                   ELSE strategy
  /\ IF op.chain \in sdks
       THEN /\ IF op.name = "getChainStatus"
                 THEN EndOp(op, FALSE)
                 ELSE op' = [op EXCEPT !.pc = "start"] /\ UNCHANGED slState
            /\ UNCHANGED connects
       ELSE /\ connects[op.chain] < MaxConnects
            /\ connects' = [connects EXCEPT ![op.chain] = @ + 1]
            /\ op' = [op EXCEPT !.pc = "connect"]
            /\ UNCHANGED slState
  /\ UNCHANGED <<advertised, sdks, wsProvider, activeListeners,
                 listenerRunning, phase, mismatches, outcome, lastStart,
                 serviceOps, shListeners, settled, shSdks, disconnected,
                 failures>>
  /\ KeepSwitchFrom
  /\ UNCHANGED <<dispVars, handlerVars, pullVars, pushVars, callVars, switchVars, largeVars, refreshVars, auxVars>>

\* EvmSdkService.connect settles (lines 37-76) and getSDK returns (51-60).
\* reachable: getNetwork() answered; ws: the WebSocket provider connected.
connectSettled(reachable, ws) ==
  /\ op.pc = "connect"
  /\ LET c == op.chain
         mismatch == reachable /\ advertised[c] # c
         connected == reachable /\ ~mismatch
     IN /\ mismatches' = IF mismatch THEN [mismatches EXCEPT ![c] = @ + 1]
                                     ELSE mismatches
        /\ sdks' = IF connected THEN sdks \cup {c} ELSE sdks
        /\ wsProvider' = IF connected THEN [wsProvider EXCEPT ![c] = ws]
                                      ELSE wsProvider
        /\ IF connected /\ op.name # "getChainStatus"
             THEN /\ op' = [op EXCEPT !.pc = "start"]
                  /\ UNCHANGED <<slState, outcome, lastStart>>
             ELSE /\ EndOp(op, FALSE)
                  /\ IF connected
                       THEN UNCHANGED <<outcome, lastStart>>
                       ELSE Record(op, "noSdk")
  /\ UNCHANGED <<strategy, advertised, activeListeners, listenerRunning,
                 phase, connects, serviceOps, shListeners, settled, shSdks,
                 disconnected, failures>>
  /\ KeepSwitchFrom
  /\ UNCHANGED <<dispVars, handlerVars, pullVars, pushVars, callVars, switchVars, largeVars, refreshVars, auxVars>>

\* ListenerFactoryService.startListener lines 41-50 with createListener
\* lines 16-39, up to the call of listener.start().
startListener ==
  /\ op.pc = "start"
  /\ LET c == op.chain
         k == <<c, strategy[c]>>
         kind == IF activeListeners[k] # "none"
                   THEN activeListeners[k]
                   ELSE createListener(strategy[c], wsProvider[c], c \in sdks)
     IN IF kind = "error"
          THEN /\ EndOp(op, TRUE)
               /\ Record(op, "createFailed")
               /\ UNCHANGED activeListeners
          ELSE /\ activeListeners' = [activeListeners EXCEPT ![k] = kind]
               /\ IF listenerRunning[k]
                    THEN EndOp(op, FALSE) /\ Record(op, "alreadyRunning")
                    ELSE /\ op' = [op EXCEPT !.pc = "starting"]
                         /\ UNCHANGED <<slState, outcome, lastStart>>
  /\ UNCHANGED <<strategy, advertised, sdks, wsProvider, listenerRunning,
                 phase, connects, mismatches, serviceOps, shListeners,
                 settled, shSdks, disconnected, failures>>
  /\ KeepSwitchFrom
  /\ UNCHANGED <<dispVars, handlerVars, pullVars, pushVars, callVars, switchVars, largeVars, refreshVars, auxVars>>

\* listener.start() settles (startListener lines 49-55).
listenerStarted(ok) ==
  /\ op.pc = "starting"
  /\ LET k == <<op.chain, strategy[op.chain]>>
     IN listenerRunning' = IF ok THEN [listenerRunning EXCEPT ![k] = TRUE]
                                 ELSE listenerRunning
  /\ EndOp(op, ~ok)
  /\ Record(op, IF ok THEN "started" ELSE "startFailed")
  /\ UNCHANGED <<strategy, advertised, sdks, wsProvider, activeListeners,
                 phase, connects, mismatches, serviceOps, shListeners,
                 settled, shSdks, disconnected, failures>>
  /\ KeepSwitchFrom
  /\ UNCHANGED <<dispVars, handlerVars, pullVars, pushVars, callVars, switchVars, largeVars, refreshVars, auxVars>>

\* A running push listener has used up its reconnects and stops itself
\* (EvmWebSocketListener.handleConnectionError).
reconnectsExhausted(k) ==
  /\ activeListeners[k] = "push" /\ listenerRunning[k]
  /\ listenerRunning' = [listenerRunning EXCEPT ![k] = FALSE]
  /\ UNCHANGED <<strategy, advertised, sdks, wsProvider, activeListeners, op,
                 phase, connects, mismatches, slState, outcome, lastStart,
                 serviceOps, shListeners, settled, shSdks, disconnected,
                 failures>>
  /\ KeepSwitchFrom
  /\ UNCHANGED <<dispVars, handlerVars, pullVars, pushVars, callVars, switchVars, largeVars, refreshVars, auxVars>>

\* BlockchainService.onModuleDestroy is called; stopAllListeners takes the
\* entries of activeListeners (line 84).
onModuleDestroy ==
  /\ phase = "up" /\ op = Idle
  /\ phase' = "stopping"
  /\ shListeners' = {k \in ListenerKeys : activeListeners[k] # "none"}
  /\ shSdks' = sdks
  /\ UNCHANGED <<strategy, advertised, sdks, wsProvider, activeListeners,
                 listenerRunning, op, connects, mismatches, slState, outcome,
                 lastStart, serviceOps, settled, disconnected, failures>>
  /\ KeepSwitchFrom
  /\ UNCHANGED <<dispVars, handlerVars, pullVars, pushVars, callVars, switchVars, largeVars, refreshVars, auxVars>>

\* One callback of stopAllListeners (lines 85-94): stop the listener if it
\* runs; a failure is logged.
stopOne(k, ok) ==
  /\ phase \in {"stopping", "disconnecting"}
  /\ k \in shListeners \ settled
  /\ ok \/ listenerRunning[k]
  /\ listenerRunning' = IF ok THEN [listenerRunning EXCEPT ![k] = FALSE]
                              ELSE listenerRunning
  /\ settled' = settled \cup {k}
  /\ failures' = IF ok THEN failures ELSE failures \cup {<<"stop", k>>}
  /\ UNCHANGED <<strategy, advertised, sdks, wsProvider, activeListeners, op,
                 phase, connects, mismatches, slState, outcome, lastStart,
                 serviceOps, shListeners, shSdks, disconnected>>
  /\ KeepSwitchFrom
  /\ UNCHANGED <<dispVars, handlerVars, pullVars, pushVars, callVars, switchVars, largeVars, refreshVars, auxVars>>

\* stopAllListeners goes past its await without waiting.
StopsSettled_notAwaited(done, all) == TRUE

\* await Promise.allSettled(stopPromises), line 97.
StopsSettled(done, all) == done = all

\* stopAllListeners lines 97-99, then disconnectAll begins.
stopsSettled ==
  /\ phase = "stopping"
  /\ StopsSettled(settled, shListeners)
  /\ activeListeners' = [k \in ListenerKeys |-> "none"]
  /\ phase' = "disconnecting"
  /\ UNCHANGED <<strategy, advertised, sdks, wsProvider, listenerRunning, op,
                 connects, mismatches, slState, outcome, lastStart,
                 serviceOps, shListeners, settled, shSdks, disconnected,
                 failures>>
  /\ KeepSwitchFrom
  /\ UNCHANGED <<dispVars, handlerVars, pullVars, pushVars, callVars, switchVars, largeVars, refreshVars, auxVars>>

\* One round of the loop of disconnectAll (lines 84-94).
disconnectOne(c, ok) ==
  /\ phase = "disconnecting"
  /\ c \in sdks \ disconnected
  /\ disconnected' = disconnected \cup {c}
  /\ wsProvider' = IF ok THEN [wsProvider EXCEPT ![c] = FALSE] ELSE wsProvider
  /\ failures' = IF ok THEN failures ELSE failures \cup {<<"disconnect", c>>}
  /\ UNCHANGED <<strategy, advertised, sdks, activeListeners, listenerRunning,
                 op, phase, connects, mismatches, slState, outcome, lastStart,
                 serviceOps, shListeners, settled, shSdks>>
  /\ KeepSwitchFrom
  /\ UNCHANGED <<dispVars, handlerVars, pullVars, pushVars, callVars, switchVars, largeVars, refreshVars, auxVars>>

\* disconnectAll line 96 and the return of onModuleDestroy.
disconnectAllDone ==
  /\ phase = "disconnecting"
  /\ sdks \subseteq disconnected
  /\ sdks' = {}
  /\ phase' = "down"
  /\ UNCHANGED <<strategy, advertised, wsProvider, activeListeners,
                 listenerRunning, op, connects, mismatches, slState, outcome,
                 lastStart, serviceOps, shListeners, settled, shSdks,
                 disconnected, failures>>
  /\ KeepSwitchFrom
  /\ UNCHANGED <<dispVars, handlerVars, pullVars, pushVars, callVars, switchVars, largeVars, refreshVars, auxVars>>

ServiceNext ==
  \/ \E st \in [Chains -> Strategies], adv \in [Chains -> Chains] :
       configLoaded(st, adv)
  \/ startListenersCall
  \/ \E c \in Chains, ok \in BOOLEAN : restartListenerCall(c, ok)
  \/ \E c \in Chains, s \in Strategies, ok \in BOOLEAN :
       switchStrategyCall(c, s, ok)
  \/ \E c \in Chains : getChainStatusCall(c)
  \/ getSDK
  \/ \E reachable \in BOOLEAN, ws \in BOOLEAN : connectSettled(reachable, ws)
  \/ startListener
  \/ \E ok \in BOOLEAN : listenerStarted(ok)
  \/ \E k \in ListenerKeys : reconnectsExhausted(k)
  \/ onModuleDestroy
  \/ \E k \in ListenerKeys, ok \in BOOLEAN : stopOne(k, ok)
  \/ stopsSettled
  \/ \E c \in Chains, ok \in BOOLEAN : disconnectOne(c, ok)
  \/ disconnectAllDone

\* BlockchainConfigService.reloadConfigs lines 33-36, which updateStrategy
\* (lines 74-80) ends with: the map is cleared and filled with new objects
\* built from the rows of the database.  st is the strategy column of the
\* rows at the time of the read.  The reload runs between two operations of
\* BlockchainService; no listener is touched.
reloadConfigs(st) ==
  /\ phase = "up" /\ op = Idle
  /\ strategy' = st
  /\ UNCHANGED <<advertised, sdks, wsProvider, activeListeners,
                 listenerRunning, op, phase, connects, mismatches, slState,
                 outcome, lastStart, serviceOps, shListeners, settled, shSdks,
                 disconnected, failures>>
  /\ KeepSwitchFrom
  /\ UNCHANGED <<dispVars, handlerVars, pullVars, pushVars, callVars, switchVars, largeVars, refreshVars, auxVars>>

\* The operations that start and stop listeners, with reloads between them.
\* Every endpoint is reachable and reports its own chain id here, and no
\* stop() or disconnect() throws; a start() may still fail.
ReloadNext ==
  \/ \E st \in [Chains -> Strategies] :
       configLoaded(st, [c \in Chains |-> c])
  \/ \E st \in [Chains -> Strategies] : reloadConfigs(st)
  \/ startListenersCall
  \/ \E c \in Chains : restartListenerCall(c, TRUE)
  \/ \E c \in Chains, s \in Strategies : switchStrategyCall(c, s, TRUE)
  \/ getSDK
  \/ \E ws \in BOOLEAN : connectSettled(TRUE, ws)
  \/ startListener
  \/ \E ok \in BOOLEAN : listenerStarted(ok)
  \/ onModuleDestroy
  \/ \E k \in ListenerKeys : stopOne(k, TRUE)
  \/ stopsSettled
  \/ \E c \in Chains : disconnectOne(c, TRUE)
  \/ disconnectAllDone

(***************************************************************************)
(* switchStrategy(chain, block_scan) on a chain whose push listener runs:  *)
(* the two listeners of one chain, fed by the same blocks.  No request     *)
(* fails in this part.                                                     *)
(***************************************************************************)
AllLogs == SortEvents(ChainLogs)

\* The notifications the node sends for block b, in log order.
LogsOfBlock(b) ==
  SelectSeq([n \in 1..Len(AllLogs) |-> n], LAMBDA n : AllLogs[n].blockNumber = b)

\* The notifications of a block for which a callback is registered and runs
\* past its guard (setupEventListener line 392).
Delivered(b) ==
  IF subscribed /\ wsRunning
    THEN SelectSeq(LogsOfBlock(b), LAMBDA n : HasListener(AllLogs[n]))
    ELSE <<>>

SeqRange(seq) == {seq[i] : i \in 1..Len(seq)}

SwitchInit ==
  /\ swPc = "push"
  /\ switchHead = 0

\* The chain grows by one block; the push listener's callbacks are invoked
\* for its logs.  Blocks come once the push listener has been started.
mineBlock ==
  /\ head < MaxHead
  /\ wsRunning \/ swPc # "push"
  /\ Cardinality(wsInFlight \cup SeqRange(Delivered(head + 1))) <= MaxCallbacks
  /\ head' = head + 1
  /\ notified' = notified + Len(LogsOfBlock(head + 1))
  /\ received' = received \o Delivered(head + 1)
  /\ wsInFlight' = wsInFlight \cup SeqRange(Delivered(head + 1))
  /\ UNCHANGED <<isRunning, cursor, scanInterval, contractRefreshTimer,
                 liveTimers, contractConfigs, startPc, ticks, enqueued,
                 firstCursor, timersMade, ticksFired>>
  /\ UNCHANGED <<wsRunning, reconnectAttempts, reconnectDelay, reconnectTimer, refreshTimer,
                 orphanReconnects, orphanRefreshes, subscribed, errorHandler,
                 loads, wsEnqueued, failedReconnects, exhausted, wsErrors,
                 wsStarts, refreshes>>
  /\ UNCHANGED <<dispVars, handlerVars, callVars, svcVars, switchVars, largeVars, refreshVars, auxVars>>

\* switchStrategy lines 98-105: stopListener finds the push listener running
\* and calls its stop().
switchStop ==
  /\ swPc = "push"
  /\ wsRunning
  /\ StopBody
  /\ swPc' = "stopped"
  /\ switchHead' = head
  /\ UNCHANGED <<reconnectAttempts, reconnectDelay, orphanReconnects, orphanRefreshes, loads,
                 wsInFlight, notified, received, wsEnqueued, failedReconnects,
                 exhausted, wsErrors, wsStarts, refreshes>>
  /\ UNCHANGED <<dispVars, handlerVars, pullVars, callVars, svcVars, largeVars, refreshVars, auxVars>>

\* switchStrategy lines 108-111: the strategy is set and getSDK returns the
\* cached adapter.
switchGetSDK ==
  /\ swPc = "stopped"
  /\ swPc' = "start"
  /\ UNCHANGED switchHead
  /\ UNCHANGED <<dispVars, handlerVars, pullVars, pushVars, callVars, svcVars, largeVars, refreshVars, auxVars>>

\* switchStrategy line 113: startListener creates the pull listener and calls
\* its start().
switchStartListener(c) ==
  /\ swPc = "start"
  /\ createListener("block_scan", TRUE, TRUE) = "pull"
  /\ ~AlreadyRunning(isRunning)
  /\ StartBody(c)
  /\ swPc' = "pull"
  /\ UNCHANGED switchHead
  /\ UNCHANGED <<dispVars, handlerVars, pushVars, callVars, svcVars, largeVars, refreshVars, auxVars>>

\* startListeners starts the chain's push listener, once.
pushListenerStart ==
  /\ wsStarts = 0
  /\ wsStartBegin

SwitchNext ==
  \/ pushListenerStart
  \/ wsStartLoaded(TRUE)
  \/ mineBlock
  \/ \E n \in 1..Len(AllLogs) : wsFetched(n, TRUE)
  \/ switchStop
  \/ switchGetSDK
  \/ \E c \in StartCalls : switchStartListener(c)
  \/ \E c \in StartCalls : startLoaded(c, TRUE)
  \/ \E c \in StartCalls : startHead(c, TRUE)
  \/ \E tm \in 1..MaxTimers, t \in TickSlots : scanTick(tm, t)
  \/ \E t \in TickSlots : tickHead(t, TRUE)
  \/ \E t \in TickSlots : tickQueried(t, {})
  \/ \E t \in TickSlots : tickLoop(t)
  \/ \E t \in TickSlots : tickReceipt(t, TRUE)

(***************************************************************************)
(* extractTransferData on its own: one Transfer with its amount and the    *)
(* configuration of its contract.                                          *)
(***************************************************************************)
\* Amounts around the thresholds of 0, 1 and 2 decimals.
TransferValues ==
  {0, 1, 99999, 100000, 100001, 999999, 1000000, 1000001, 9999999, 10000000,
   99999999, 100000000, 100000001}

ConfiguredDecimals == 0..MaxDecimals

LargeInit ==
  /\ ltPc = "idle"
  /\ ltValue = 0
  /\ ltDecimals = 0
  /\ ltStable = FALSE
  /\ ltResult = FALSE

\* handle() receives a Transfer of amount v whose contract is configured
\* with d decimals and isStablecoin s.
transferArrives(v, d, s) ==
  /\ ltPc \in {"idle", "done"}
  /\ ltPc' = "args"
  /\ ltValue' = v
  /\ ltDecimals' = d
  /\ ltStable' = s
  /\ UNCHANGED ltResult
  /\ UNCHANGED <<dispVars, handlerVars, pullVars, pushVars, callVars, svcVars, switchVars, refreshVars, auxVars>>

\* extractTransferData lines 521-547.
extractTransferData ==
  /\ ltPc = "args"
  /\ ltPc' = "done"
  /\ ltResult' = isLargeTransfer(ltValue, contractInfoDecimals(ltDecimals),
                                 ltStable)
  /\ UNCHANGED <<ltValue, ltDecimals, ltStable>>
  /\ UNCHANGED <<dispVars, handlerVars, pullVars, pushVars, callVars, svcVars, switchVars, refreshVars, auxVars>>

LargeNext ==
  \/ \E v \in TransferValues, d \in ConfiguredDecimals, s \in BOOLEAN :
       transferArrives(v, d, s)
  \/ extractTransferData

(***************************************************************************)
(* The periodic reload of the contract configurations.  The config store   *)
(* changes while the listeners run.  The pull listener is the one above,   *)
(* with the callback of its refresh timer; the push listener is modelled   *)
(* here with one subscription per contract, each await of                  *)
(* loadAndSetupContracts being a step.  start() calls of a listener do not *)
(* overlap in this part.                                                   *)
(***************************************************************************)
SetupSlots == 1..MaxLoadsInFlight
ContractOrder == <<"A", "B">>
IdleSetup == [pc |-> "idle", kind |-> "none", snap |-> {}, todo |-> <<>>,
              result |-> "none", since |-> 0]

\* The contracts the push listener holds subscriptions for.
SubscribedContracts == {l[1] : l \in contractListeners}

RefreshInit ==
  /\ storeEnabled = DOMAIN EnabledContracts
  /\ storeChanges = 0
  /\ reloads = 0
  /\ reloadTicks = 0
  /\ reloadsFailed = [pull |-> 0, push |-> 0]
  /\ pushActive = FALSE
  /\ pushRefreshTimer = "null"
  /\ contractInstances = [c \in DOMAIN EnabledContracts |-> 0]
  /\ contractListeners = {}
  /\ providerErrorListener = FALSE
  /\ setups = [l \in SetupSlots |-> IdleSetup]
  /\ setupTicks = 0

\* A contract of the chain is enabled or disabled in the config store.
storeChange(c) ==
  /\ storeChanges < MaxStoreChanges
  /\ storeChanges' = storeChanges + 1
  /\ storeEnabled' = IF c \in storeEnabled THEN storeEnabled \ {c}
                                           ELSE storeEnabled \cup {c}
  /\ UNCHANGED <<reloads, reloadTicks, reloadsFailed, pushActive,
                 pushRefreshTimer, contractInstances, contractListeners,
                 providerErrorListener, setups, setupTicks>>
  /\ UNCHANGED <<dispVars, handlerVars, pullVars, pushVars, callVars, svcVars, switchVars, largeVars, auxVars>>

\* The callback of the pull listener's startContractRefreshTimer (part_009
\* lines 198-212) fires: it returns when the listener is not running, else
\* it awaits loadContracts().
contractRefreshTick(tm) ==
  /\ tm \in liveTimers
  /\ tm % 2 = 0
  /\ isRunning
  /\ reloadTicks < MaxReloads
  /\ reloadTicks' = reloadTicks + 1
  /\ reloads' = reloads + 1
  /\ UNCHANGED <<storeEnabled, storeChanges, reloadsFailed, pushActive,
                 pushRefreshTimer, contractInstances, contractListeners,
                 providerErrorListener, setups, setupTicks>>
  /\ UNCHANGED <<dispVars, handlerVars, pullVars, pushVars, callVars, svcVars, switchVars, largeVars, auxVars>>

\* loadContracts lines 154-157: the assignment to this.contractConfigs is
\* not reached when getEnabledContractsByChain throws.
AfterFailedLoad_cleared(configs) == <<>>

AfterFailedLoad(configs) == configs

\* loadContracts() of a refresh callback has settled (part_009 lines
\* 152-180): the snapshot is replaced by what the store returned; a failure
\* is rethrown and logged by the callback.
loadContracts(ok) ==
  /\ reloads > 0
  /\ reloads' = reloads - 1
  /\ IF ok
       THEN /\ contractConfigs' = getEnabledContractsByChain(storeEnabled)
            /\ UNCHANGED reloadsFailed
       ELSE /\ contractConfigs' = AfterFailedLoad(contractConfigs)
            /\ reloadsFailed' = [reloadsFailed EXCEPT !.pull = @ + 1]
  /\ UNCHANGED <<head, isRunning, cursor, scanInterval, contractRefreshTimer,
                 liveTimers, startPc, ticks, enqueued, firstCursor,
                 timersMade, ticksFired>>
  /\ UNCHANGED <<storeEnabled, storeChanges, reloadTicks, pushActive,
                 pushRefreshTimer, contractInstances, contractListeners,
                 providerErrorListener, setups, setupTicks>>
  /\ UNCHANGED <<dispVars, handlerVars, pushVars, callVars, svcVars, switchVars, largeVars, auxVars>>

\* loadAndSetupContracts is entered in slot l for caller kind and awaits
\* getEnabledContractsByChain (part_011 lines 304-310).
SetupBegin(l, kind) ==
  /\ setups[l].pc = "idle"
  /\ setups' = [setups EXCEPT ![l] = [IdleSetup EXCEPT !.pc = "read",
                                                        !.kind = kind,
                                                        !.since = storeChanges]]

\* start() of the push listener, lines 242-251.
setupStart(l) ==
  /\ ~pushActive
  /\ \A k \in SetupSlots : setups[k].pc = "idle" \/ setups[k].kind # "start"
  /\ SetupBegin(l, "start")
  /\ UNCHANGED <<storeEnabled, storeChanges, reloads, reloadTicks,
                 reloadsFailed, pushActive, pushRefreshTimer,
                 contractInstances, contractListeners, providerErrorListener,
                 setupTicks>>
  /\ UNCHANGED <<dispVars, handlerVars, pullVars, pushVars, callVars, svcVars, switchVars, largeVars, auxVars>>

\* The callback of the push listener's startContractRefreshTimer (part_011
\* lines 643-655) fires.
setupTick(l) ==
  /\ pushRefreshTimer = "live"
  /\ pushActive
  /\ setupTicks < MaxReloads
  /\ setupTicks' = setupTicks + 1
  /\ SetupBegin(l, "refresh")
  /\ UNCHANGED <<storeEnabled, storeChanges, reloads, reloadTicks,
                 reloadsFailed, pushActive, pushRefreshTimer,
                 contractInstances, contractListeners, providerErrorListener>>
  /\ UNCHANGED <<dispVars, handlerVars, pullVars, pushVars, callVars, svcVars, switchVars, largeVars, auxVars>>

\* loadAndSetupContracts has run to its end in slot l (lines 325-332): the
\* 'error' listener is attached; start() then creates the refresh timer and
\* sets the flag (lines 252-253).
SetupComplete(l) ==
  /\ providerErrorListener' = TRUE
  /\ IF setups[l].kind = "start"
       THEN /\ pushRefreshTimer' = "live"
            /\ pushActive' = TRUE
       ELSE UNCHANGED <<pushRefreshTimer, pushActive>>

\* setupContract (lines 343-377) for contract c in slot l: a new contract
\* object is stored under the address and its listeners are attached.
SetupOne(l, c, instances, listeners) ==
  /\ contractInstances' = [instances EXCEPT ![c] = l]
  /\ contractListeners' = listeners \cup {<<c, l>>}

\* getEnabledContractsByChain has settled in slot l.  On success (lines
\* 316-322) the listeners of the stored contract objects and of the provider
\* are removed, the map is cleared and the first contract is set up, after
\* which the loop awaits; on failure the error is rethrown (lines 333-339).
setupRead(l, ok) ==
  /\ setups[l].pc = "read"
  /\ IF ~ok
       THEN /\ setups' = [setups EXCEPT ![l] = [IdleSetup EXCEPT !.result = "failed",
                                                                  !.kind = setups[l].kind]]
            /\ reloadsFailed' = [reloadsFailed EXCEPT !.push =
                                    @ + (IF setups[l].kind = "refresh" THEN 1 ELSE 0)]
            /\ UNCHANGED <<pushActive, pushRefreshTimer, contractInstances,
                           contractListeners, providerErrorListener>>
       ELSE LET todo == SelectSeq(ContractOrder, LAMBDA c : c \in storeEnabled)
                kept == {x \in contractListeners : contractInstances[x[1]] # x[2]}
                none == [c \in DOMAIN EnabledContracts |-> 0]
            IN /\ UNCHANGED reloadsFailed
               /\ IF todo = <<>>
                    THEN /\ contractInstances' = none
                         /\ contractListeners' = kept
                         /\ SetupComplete(l)
                         /\ setups' = [setups EXCEPT ![l] =
                               [setups[l] EXCEPT !.pc = "idle",
                                                 !.snap = storeEnabled,
                                                 !.result = "ok"]]
                    ELSE /\ SetupOne(l, Head(todo), none, kept)
                         /\ providerErrorListener' = FALSE
                         /\ UNCHANGED <<pushActive, pushRefreshTimer>>
                         /\ setups' = [setups EXCEPT ![l] =
                               [setups[l] EXCEPT !.pc = "setup",
                                                 !.snap = storeEnabled,
                                                 !.todo = Tail(todo)]]
  /\ UNCHANGED <<storeEnabled, storeChanges, reloads, reloadTicks, setupTicks>>
  /\ UNCHANGED <<dispVars, handlerVars, pullVars, pushVars, callVars, svcVars, switchVars, largeVars, auxVars>>

\* The await of setupContract (line 322) has resumed in slot l: the loop
\* sets up the next contract, or loadAndSetupContracts runs to its end.
setupNext(l) ==
  /\ setups[l].pc = "setup"
  /\ IF setups[l].todo = <<>>
       THEN /\ SetupComplete(l)
            /\ setups' = [setups EXCEPT ![l].pc = "idle", ![l].result = "ok"]
            /\ UNCHANGED <<contractInstances, contractListeners>>
       ELSE /\ SetupOne(l, Head(setups[l].todo), contractInstances,
                        contractListeners)
            /\ setups' = [setups EXCEPT ![l].todo = Tail(@)]
            /\ UNCHANGED <<providerErrorListener, pushActive, pushRefreshTimer>>
  /\ UNCHANGED <<storeEnabled, storeChanges, reloads, reloadTicks,
                 reloadsFailed, setupTicks>>
  /\ UNCHANGED <<dispVars, handlerVars, pullVars, pushVars, callVars, svcVars, switchVars, largeVars, auxVars>>

RefreshNext ==
  \/ \E c \in DOMAIN EnabledContracts : storeChange(c)
  \/ startBegin(1)
  \/ \E ok \in BOOLEAN : startLoaded(1, ok)
  \/ \E ok \in BOOLEAN : startHead(1, ok)
  \/ stop
  \/ \E tm \in 1..MaxTimers : contractRefreshTick(tm)
  \/ \E ok \in BOOLEAN : loadContracts(ok)
  \/ \E l \in SetupSlots : setupStart(l)
  \/ \E l \in SetupSlots : setupTick(l)
  \/ \E l \in SetupSlots, ok \in BOOLEAN : setupRead(l, ok)
  \/ \E l \in SetupSlots : setupNext(l)

\* The pull listener scanning while its contract-refresh timer reloads the
\* snapshot: one start() call at a time, no request of a scan fails.
SnapshotNext ==
  \/ newBlock
  \/ \E c \in DOMAIN EnabledContracts : storeChange(c)
  \/ startBegin(1)
  \/ startLoaded(1, TRUE)
  \/ startHead(1, TRUE)
  \/ stop
  \/ \E tm \in 1..MaxTimers, t \in TickSlots : scanTick(tm, t)
  \/ \E t \in TickSlots : tickHead(t, TRUE)
  \/ \E t \in TickSlots : tickQueried(t, {})
  \/ \E t \in TickSlots : tickLoop(t)
  \/ \E t \in TickSlots : tickReceipt(t, TRUE)
  \/ \E tm \in 1..MaxTimers : contractRefreshTick(tm)
  \/ \E ok \in BOOLEAN : loadContracts(ok)

(***************************************************************************)
(* setupContract and setupEventListener of the push listener, for one      *)
(* contract configuration.  The whole of setupContract runs without an     *)
(* await.                                                                  *)
(***************************************************************************)
\* topic-0 of Deposit(address,uint256), an event parseEventName does not list.
DepositHash == "0xe1fffcc4"
TopicHashes == {TransferHash, ApprovalHash, DepositHash}
AbiEventNames == {"Transfer", "Approval", "Deposit"}
NoName == "null"

\* The event of an abi that has topic-0 hash sig.
AbiEventOf(sig) ==
  IF sig = TransferHash THEN "Transfer"
  ELSE IF sig = ApprovalHash THEN "Approval"
  ELSE IF sig = DepositHash THEN "Deposit" ELSE NoName

\* parseEventName lines 532-543: knownEvents[eventSignature] || null.
parseEventName(eventSignature) ==
  IF eventSignature = TransferHash THEN "Transfer"
  ELSE IF eventSignature = ApprovalHash THEN "Approval" ELSE NoName

\* The lists of distinct topic-0 hashes a configuration can hold.
EventLists ==
  {<<>>} \cup {<<a>> : a \in TopicHashes}
    \cup {q \in [1..2 -> TopicHashes] : q[1] # q[2]}
    \cup {q \in [1..3 -> TopicHashes] : Cardinality({q[1], q[2], q[3]}) = 3}

SetupContractInit ==
  /\ scPc = "idle"
  /\ scEvents = <<>>
  /\ scAbi = {}
  /\ scListeners = <<>>

\* A ContractConfig document of the chain: its events and its abi.
contractConfigured(events, abi) ==
  /\ scPc = "idle"
  /\ scPc' = "configured"
  /\ scEvents' = events
  /\ scAbi' = abi
  /\ UNCHANGED <<scListeners, dcPc, dcEvents, dcIdx, dcEnqueued>>
  /\ UNCHANGED <<dispVars, handlerVars, pullVars, pushVars, callVars, svcVars, switchVars, largeVars, refreshVars>>

\* setupEventListener lines 379-428 for each signature of the list: return
\* when parseEventName gives null, else contract.on(eventName, ...), which
\* throws for a name the abi does not declare; the error is caught.
RECURSIVE SetupEventListeners(_, _, _)
SetupEventListeners(events, abi, listeners) ==
  IF events = <<>> THEN listeners
  ELSE LET eventName == parseEventName(Head(events))
       IN SetupEventListeners(Tail(events), abi,
            IF eventName # NoName /\ eventName \in abi
              THEN Append(listeners, eventName) ELSE listeners)

\* setupContract lines 343-377.
setupContract ==
  /\ scPc = "configured"
  /\ scPc' = "done"
  /\ scListeners' = SetupEventListeners(scEvents, scAbi, <<>>)
  /\ UNCHANGED <<scEvents, scAbi, dcPc, dcEvents, dcIdx, dcEnqueued>>
  /\ UNCHANGED <<dispVars, handlerVars, pullVars, pushVars, callVars, svcVars, switchVars, largeVars, refreshVars>>

SetupContractNext ==
  \/ \E events \in EventLists, abi \in SUBSET AbiEventNames :
       contractConfigured(events, abi)
  \/ setupContract

(***************************************************************************)
(* The events of one scanned range of the pull listener, from the logs the *)
(* queries returned to the dispatcher.                                     *)
(***************************************************************************)
\* decodeEventData lines 531-552: the decoded arguments, or [] when
\* iface.parseLog throws (the error is caught and logged) or returns null.
decodeEventData(decodable) ==
  IF decodable THEN <<"from", "to", "value">> ELSE <<>>

\* formatEventArgs lines 554-582 for a Transfer: the named fields when there
\* are three arguments, else the raw arguments.
formatEventArgs(args) ==
  IF Len(args) >= 3
    THEN [from |-> args[1], to |-> args[2], value |-> args[3]]
    ELSE args

\* The logs a range can return: each decodes against the abi or does not.
RangeLogs ==
  UNION {[1..n -> BOOLEAN] : n \in 1..MaxRangeLogs}

DecodeInit ==
  /\ dcPc = "idle"
  /\ dcEvents = <<>>
  /\ dcIdx = 0
  /\ dcEnqueued = <<>>

\* getAllContractEventsInRange lines 337-346 has returned: one entry per log
\* of the queries, with args from decodeEventData.
eventsQueried(logs) ==
  /\ dcPc = "idle"
  /\ dcPc' = "loop"
  /\ dcEvents' = [i \in 1..Len(logs) |->
                    [logIndex |-> i, decodable |-> logs[i],
                     args |-> decodeEventData(logs[i])]]
  /\ dcIdx' = 1
  /\ UNCHANGED <<dcEnqueued, scPc, scEvents, scAbi, scListeners>>
  /\ UNCHANGED <<dispVars, handlerVars, pullVars, pushVars, callVars, svcVars, switchVars, largeVars, refreshVars>>

\* The loop of processBlockRangeWithBatching (lines 285-289) takes the next
\* event and processContractEvent awaits its receipt.
processNextEvent ==
  /\ dcPc = "loop"
  /\ IF dcIdx > Len(dcEvents)
       THEN dcPc' = "done"
       ELSE dcPc' = "receipt"
  /\ UNCHANGED <<dcEvents, dcIdx, dcEnqueued, scPc, scEvents, scAbi, scListeners>>
  /\ UNCHANGED <<dispVars, handlerVars, pullVars, pushVars, callVars, svcVars, switchVars, largeVars, refreshVars>>

\* processContractEvent lines 459-519 after the receipt has settled: without
\* a receipt the event is skipped; with it the BlockchainEvent is built, its
\* args from formatEventArgs, and passed to dispatchEvent.
processContractEvent(ok) ==
  /\ dcPc = "receipt"
  /\ dcPc' = "loop"
  /\ dcIdx' = dcIdx + 1
  /\ dcEnqueued' =
       IF ok THEN Append(dcEnqueued,
                         [logIndex |-> dcEvents[dcIdx].logIndex,
                          args |-> formatEventArgs(dcEvents[dcIdx].args)])
             ELSE dcEnqueued
  /\ UNCHANGED <<dcEvents, scPc, scEvents, scAbi, scListeners>>
  /\ UNCHANGED <<dispVars, handlerVars, pullVars, pushVars, callVars, svcVars, switchVars, largeVars, refreshVars>>

DecodeNext ==
  \/ \E logs \in RangeLogs : eventsQueried(logs)
  \/ processNextEvent
  \/ \E ok \in BOOLEAN : processContractEvent(ok)

Init ==
  /\ DispInit /\ HandlerInit /\ PullInit /\ PushInit /\ CallInit
  /\ ServiceInit /\ SwitchInit /\ LargeInit /\ RefreshInit
  /\ SetupContractInit /\ DecodeInit
Next == DispNext
Spec == Init /\ [][Next]_vars

SpecHandler == Init /\ [][HandlerNext]_vars
SpecStore == Init /\ [][StoreNext]_vars
SpecPull == Init /\ [][PullNext]_vars
SpecPush == Init /\ [][PushNext]_vars
SpecLifecycle == Init /\ [][LifecycleNext]_vars
SpecService == Init /\ [][ServiceNext]_vars
SpecSwitch == Init /\ [][SwitchNext]_vars
SpecLarge == Init /\ [][LargeNext]_vars
SpecDrain == Init /\ [][DrainNext]_vars /\ DrainFairness
SpecRefresh == Init /\ [][RefreshNext]_vars
SpecCanHandle == Init /\ [][CanHandleNext]_vars
SpecReload == Init /\ [][ReloadNext]_vars
SpecSnapshot == Init /\ [][SnapshotNext]_vars
SpecSetupContract == Init /\ [][SetupContractNext]_vars
SpecDecode == Init /\ [][DecodeNext]_vars

(***************************************************************************)
(* Claims about the dispatcher, checked under Spec.                        *)
(***************************************************************************)
Draining == {c \in Callers : callPc[c] = "draining"}

\* C1: events are handed to the handlers in exactly the order in which they
\* were appended: the popped events are in ascending append order and every
\* event still queued was appended after every event already popped.
C1_FifoOrder ==
  /\ \A i, j \in 1..Len(popped) : i < j => popped[i].id < popped[j].id
  /\ \A i \in 1..Len(popped), k \in 1..Len(eventQueue) :
        popped[i].id < eventQueue[k].id
  /\ \A k, l \in 1..Len(eventQueue) : k < l => eventQueue[k].id < eventQueue[l].id

\* Three events of two different callers have been popped, the later ones
\* appended while the first caller's drain loop was active.
C1_Witness ==
  /\ Len(popped) = 3
  /\ popped[1].src # popped[2].src
  /\ popped[3].src = popped[1].src

\* C2: at most one drain loop is active, and a dispatchEvent call arriving
\* while the flag is set only appends its event: it pops nothing, starts no
\* handler and leaves every caller's position as it was.
C2_SingleDrainLoop ==
  /\ [](Cardinality(Draining) <= 1)
  /\ [][(isProcessing /\ appended' = appended + 1) =>
          /\ Len(eventQueue') = Len(eventQueue) + 1
          /\ SubSeq(eventQueue', 1, Len(eventQueue)) = eventQueue
          /\ UNCHANGED <<isProcessing, callPc, current, pending, popped, started>>
       ]_vars

\* A drain loop of L1 is suspended on a handler while an event appended by L2
\* waits in the queue and L2 has already returned.
C2_Witness ==
  /\ isProcessing
  /\ callPc["L1"] = "draining"
  /\ pending["L1"] # {}
  /\ callPc["L2"] = "idle"
  /\ \E k \in 1..Len(eventQueue) : eventQueue[k].src = "L2"

Settled(ev, i) == \E r \in {"ok", "throw"} : <<ev, i, r>> \in outcomes

\* C3: once some handle() has thrown, the dispatcher still works: the handler
\* list is intact, every handle() that was started has settled or is being
\* awaited by the active drain loop, the flag is set exactly while a loop is
\* active, and the queue is empty whenever no loop is active.
C3_ThrowDoesNotStop ==
  (\E o \in outcomes : o[3] = "throw") =>
    /\ Len(handlers) = registered
    /\ \A s \in started :
          \/ Settled(s[1], s[2])
          \/ \E c \in Draining : current[c].id = s[1] /\ s[2] \in pending[c]
    /\ isProcessing <=> (Draining # {})
    /\ (Draining = {}) => eventQueue = <<>>

\* Handler slot 1 threw for an event, slot 2 completed for the same event, a
\* later event was popped and handled, and the dispatcher is idle and empty.
C3_Witness ==
  /\ Len(handlers) = 2
  /\ \E e \in 1..appended :
        /\ <<e, 1, "throw">> \in outcomes
        /\ <<e, 2, "ok">> \in outcomes
        /\ \E f \in 1..appended : f > e /\ <<f, 2, "ok">> \in outcomes
  /\ eventQueue = <<>>
  /\ Draining = {}
  /\ ~isProcessing

\* C26: no handle() call is started for an event while a handle() call
\* started for an earlier event has not yet settled, by success or by failure:
\* whenever a step starts handlers, every handler started before has settled.
C26_NextEventWaitsForHandlers ==
  [][started' # started => \A s \in started : Settled(s[1], s[2])]_vars

\* Both handlers ran for the first event, one of them threw, and the handlers
\* of a second event, appended by the other caller during that drain, have
\* been started.
C26_Witness ==
  /\ Len(popped) >= 2
  /\ popped[1].src # popped[2].src
  /\ <<popped[1].id, 1, "throw">> \in outcomes
  /\ <<popped[1].id, 2, "ok">> \in outcomes
  /\ {<<popped[2].id, 1>>, <<popped[2].id, 2>>} \subseteq started

PoppedIds == {popped[k].id : k \in 1..Len(popped)}

C6_UniqueEventKey ==
  \A i, j \in 1..Len(eventStore) :
     i # j => EventKey(eventStore[i]) # EventKey(eventStore[j])

\* Two overlapping invocations passed the existence check for the same log;
\* one insert was stored and the other was rejected by the unique index.
C6_Witness ==
  /\ dupKeyErrors > 0
  /\ Len(eventStore) >= 1
  /\ handled = invoked

Counters ==
  [k \in ContractConfigKeys |->
     IF contractData[k] = NoDoc THEN <<0, 0>>
     ELSE <<contractData[k].transferCount, contractData[k].largeTransferCount>>]

\* C7: while handle() runs for a log that was already persisted and counted
\* when the call began, no step adds a document to the event store or changes
\* transferCount or largeTransferCount.
C7_ReplayIsNoOp ==
  [][(\E s \in Slots : inv[s].pc # "idle" /\ inv[s].replay) =>
        (eventStore' = eventStore /\ Counters' = Counters)]_vars

\* C8: lastProcessedBlock of a ContractData document never decreases.
C8_LastProcessedBlockMonotonic ==
  [][\A k \in ContractConfigKeys :
        contractData[k] # NoDoc =>
           /\ contractData'[k] # NoDoc
           /\ contractData'[k].lastProcessedBlock
                 >= contractData[k].lastProcessedBlock]_vars

\* handle() of a log of block 1 has gone through updateLastProcessedBlock
\* while the document stood at block 2, and the document still stands there.
C8_Witness ==
  \E s \in Slots :
     /\ inv[s].pc = "updateMeta"
     /\ inv[s].ev.blockNumber = 1
     /\ contractData[CDKey(inv[s].ev)] # NoDoc
     /\ contractData[CDKey(inv[s].ev)].lastProcessedBlock = 2

\* C20: in every ContractData document, firstSeenBlock <= lastProcessedBlock
\* once both are set, and startFromBlock <= firstSeenBlock when both are set.
C20_BlockFieldsOrdered ==
  \A k \in ContractConfigKeys :
     LET d == contractData[k] IN
     d # NoDoc =>
        /\ (d.firstSeenBlock # 0 /\ d.lastProcessedBlock # 0
               => d.firstSeenBlock <= d.lastProcessedBlock)
        /\ (d.startFromBlock # 0 /\ d.firstSeenBlock # 0
               => d.startFromBlock <= d.firstSeenBlock)

\* The same statement for runs in which no store call has failed.
C20_OrderedWithoutStoreErrors ==
  storeErrors = 0 => C20_BlockFieldsOrdered

(***************************************************************************)
(* Claims about the pull listener, checked under SpecPull.                 *)
(***************************************************************************)
\* The logs of blocks a..b that match a contract of cfgs and one of its
\* configured events.
Matching(a, b, cfgs) == UNION {queryFilter(q, a, b) : q \in Queries(cfgs)}

EnqueuedSet(seq) == {seq[i] : i \in 1..Len(seq)}

\* C4: when a scan of [a, b] ends and the cursor is set, the events enqueued
\* for [a, b] are exactly the matching logs of [a, b], and no log is ever
\* enqueued twice.
C4_ScanEnqueuesMatchingLogs ==
  /\ [](\A i, j \in 1..Len(enqueued) : i # j => enqueued[i] # enqueued[j])
  /\ [][\A t \in TickSlots :
          (ticks[t].pc = "loop" /\ ticks'[t].pc = "idle") =>
             {l \in EnqueuedSet(enqueued') :
                 ticks[t].from <= l.blockNumber /\ l.blockNumber <= ticks[t].to}
               = Matching(ticks[t].from, ticks[t].to, ticks[t].cfgs)]_vars

\* C5: the events passed to dispatchEvent are ascending in
\* (blockNumber, logIndex) over the whole run.
C5_EnqueueOrderAscending ==
  \A i, j \in 1..Len(enqueued) :
     i < j => ~LogBefore(enqueued[j], enqueued[i])

\* C9: a listener that is not running (stop() has been called) makes no
\* dispatchEvent call.
C9_NoDispatchAfterStop ==
  [][~isRunning => enqueued' = enqueued]_vars

\* C10: every matching log of the blocks between the first cursor and the
\* current cursor has been enqueued.
C10_CursorBehindEnqueued ==
  \A l \in Matching(firstCursor + 1, cursor, EnabledContracts) :
     l \in EnqueuedSet(enqueued)

(***************************************************************************)
(* Claims about the events the listeners build, checked under SpecPull.    *)
(***************************************************************************)
\* The fields of a BlockchainEvent a handler reads.
HandlerFields(ev) ==
  <<ev.eventType, ev.contractAddress, ev.topics, ev.logIndex, ev.event>>

\* C11: for every Transfer log the pull listener has enqueued, the event it
\* built and the event the push listener builds for the same log agree on
\* the fields a handler reads, and the transfer handler's canHandle accepts
\* both.
C11_ListenersBuildSameEvent ==
  \A i \in 1..Len(enqueued) :
     LET l == enqueued[i] IN
     l.eventName = "Transfer" =>
        /\ HandlerFields(pullEvent(l)) = HandlerFields(pushEvent(l))
        /\ transferCanHandle(pullEvent(l))
        /\ transferCanHandle(pushEvent(l))

(***************************************************************************)
(* Claims about the push listener, checked under SpecPush.                 *)
(***************************************************************************)
\* C12: the push listener passes notifications to dispatchEvent in the
\* order in which it received them, none twice.
C12_PushOrderPreserved ==
  \A i, j \in 1..Len(wsEnqueued) : i < j => wsEnqueued[i] < wsEnqueued[j]

\* C13: after MaxReconnectAttempts consecutive failed reconnects the
\* listener is not running; once handleConnectionError has stopped it, no
\* reconnect is scheduled and no event is enqueued; a successful reconnect
\* resets the attempt counter.
C13_StopsAfterMaxReconnects ==
  /\ [](failedReconnects >= MaxReconnectAttempts => ~wsRunning)
  /\ [][(exhausted /\ ~wsRunning) =>
          /\ wsEnqueued' = wsEnqueued
          /\ reconnectTimer' # "pending"
          /\ orphanReconnects' <= orphanReconnects]_vars
  /\ [][(loads'["reconnect"] < loads["reconnect"]
            /\ failedReconnects' = 0) => reconnectAttempts' = 0]_vars

(***************************************************************************)
(* Claims about start() and stop(), checked under SpecLifecycle.           *)
(***************************************************************************)
\* What start() and stop() of the pull listener act on.
PullLifecycle ==
  <<isRunning, cursor, scanInterval, contractRefreshTimer, liveTimers,
    contractConfigs, startPc>>

\* What start() and stop() of the push listener act on.
PushLifecycle ==
  <<wsRunning, reconnectAttempts, reconnectTimer, refreshTimer,
    orphanReconnects, orphanRefreshes, subscribed, errorHandler, loads>>

\* C17: a start() call on a running listener and a stop() call on a stopped
\* listener, of either kind, leave the flag, the cursor, the timers, the
\* subscriptions and the calls in progress as they were.
C17_StartStopIdempotent ==
  [][callTick' # callTick =>
       /\ (lastCall'.op = "pull.start" /\ isRunning => UNCHANGED PullLifecycle)
       /\ (lastCall'.op = "pull.stop" /\ ~isRunning => UNCHANGED PullLifecycle)
       /\ (lastCall'.op = "push.start" /\ wsRunning => UNCHANGED PushLifecycle)
       /\ (lastCall'.op = "push.stop" /\ ~wsRunning => UNCHANGED PushLifecycle)
    ]_vars

\* Both listeners are running with their timers and subscriptions, and the
\* last call made was a start() on the pull listener while it was running.
C17_Witness ==
  /\ isRunning /\ wsRunning
  /\ scanInterval # 0 /\ refreshTimer = "live" /\ subscribed
  /\ lastCall = [op |-> "pull.start", running |-> TRUE]
  /\ \A c \in StartCalls : startPc[c] = "idle"
  /\ LoadsInFlight = 0

(***************************************************************************)
(* Claims about switchStrategy, checked under SpecSwitch.                  *)
(***************************************************************************)
\* How many times the log with index n of AllLogs was passed to
\* dispatchEvent, by either listener.
TimesEnqueued(n) ==
  Cardinality({i \in 1..Len(wsEnqueued) : wsEnqueued[i] = n})
    + Cardinality({i \in 1..Len(enqueued) : enqueued[i] = AllLogs[n]})

\* The switch is over: the pull listener runs, has scanned up to the head,
\* and no callback of either listener is in progress.
SwitchSettled ==
  /\ swPc = "pull" /\ isRunning /\ cursor = head
  /\ \A t \in TickSlots : ticks[t].pc = "idle"
  /\ wsInFlight = {}

\* C14: after switchStrategy(chain, block_scan) on a chain whose push
\* listener ran, the push listener is stopped, the pull listener started
\* with its cursor at the head of the moment of the switch, and every
\* matching log mined since the push listener started has been enqueued
\* exactly once.
C14_SwitchoverExactlyOnce ==
  /\ (swPc = "pull" /\ isRunning) => (~wsRunning /\ firstCursor = switchHead)
  /\ SwitchSettled =>
       \A n \in 1..Len(AllLogs) :
          (HasListener(AllLogs[n]) /\ AllLogs[n].blockNumber <= head)
             => TimesEnqueued(n) = 1

(***************************************************************************)
(* Claims about the services, checked under SpecService.                   *)
(***************************************************************************)
\* C18: once connect() has failed for a chain because the endpoint reports
\* another chain id, the chain has no listener and connect() is not called
\* for it again by any later operation.
C18_MismatchIsFatal ==
  [][\A c \in Chains :
       mismatches[c] > 0 =>
         /\ connects'[c] = connects[c]
         /\ \A k \in KeysOf(c) : activeListeners'[k] = "none"]_vars

\* The last attempt to start the listener of chain c ended with a running
\* pull listener.
RunningPull(c) ==
  /\ lastStart[c].result \in {"started", "alreadyRunning"}
  /\ activeListeners[<<c, lastStart[c].strategy>>] = "pull"

\* C19: when the listener of a connected chain without a WebSocket provider
\* is started under the websocket or the hybrid strategy, the attempt does
\* not end in an error of createListener: a pull listener is created, and it
\* runs unless its own start() failed.
C19_FallsBackToPull ==
  \A c \in Chains :
     (/\ c \in sdks /\ ~wsProvider[c] /\ phase = "up"
      /\ lastStart[c].strategy \in {"websocket", "hybrid"}
      /\ lastStart[c].strategy = strategy[c]
      /\ lastStart[c].result # "noSdk")
        => /\ lastStart[c].result # "createFailed"
           /\ lastStart[c].result # "startFailed" => RunningPull(c)

\* The chains some of whose listeners change their running flag in a step.
ChainsTouched ==
  {c \in Chains : \E k \in KeysOf(c) : listenerRunning'[k] # listenerRunning[k]}

StartFailures == {"noSdk", "createFailed", "startFailed"}

\* C15: when startListeners has returned, the loop body has run for every
\* enabled chain whatever happened to the chains before it, and a chain
\* whose own adapter, listener creation and start succeeded was started; no
\* step, a failed start or a push listener giving up included, changes the
\* running flag of a listener of another chain.
C15_ErrorsStayInChain ==
  /\ [](slState = "done" =>
          \A i \in 1..Len(EnabledConfigs) :
             outcome[EnabledConfigs[i]] # "pending")
  /\ [][/\ Cardinality(ChainsTouched) <= 1
        /\ \A c \in Chains :
             (outcome[c] = "pending" /\ outcome'[c] \in StartFailures)
                => ChainsTouched = {}
        /\ \A c \in Chains :
             (outcome[c] = "pending" /\ outcome'[c] = "started")
                => listenerRunning'[<<c, strategy[c]>>]]_vars

\* startListeners has returned; the first chain failed and the second one
\* runs, or the first chain's push listener ran and has given up while the
\* second one runs.
C15_Witness ==
  /\ slState = "done" /\ op = Idle /\ phase = "up" /\ serviceOps = 0
  /\ outcome[2] = "started" /\ listenerRunning[<<2, strategy[2]>>]
  /\ \/ outcome[1] = "startFailed"
     \/ /\ outcome[1] = "started"
        /\ activeListeners[<<1, strategy[1]>>] = "push"
        /\ ~listenerRunning[<<1, strategy[1]>>]

\* C16: during shutdown no disconnect() is called before the callback of
\* every listener taken by stopAllListeners has ended, and when shutdown
\* returns every listener has been handled and disconnect() has been called
\* on every cached adapter, whichever stops and disconnects failed.
C16_StopsBeforeDisconnects ==
  /\ disconnected # {} => settled = shListeners
  /\ phase = "down" =>
       /\ settled = shListeners
       /\ disconnected = shSdks
       /\ \A k \in shListeners :
            listenerRunning[k] => <<"stop", k>> \in failures

\* Shutdown has returned after handling two listeners and two adapters, with
\* one stop and one disconnect having failed.
C16_Witness ==
  /\ phase = "down"
  /\ Cardinality(shListeners) >= 2 /\ shSdks = Chains
  /\ \E k \in shListeners : <<"stop", k>> \in failures
  /\ \E c \in Chains : <<"disconnect", c>> \in failures
  /\ \E k \in shListeners : ~listenerRunning[k] /\ <<"stop", k>> \notin failures

(***************************************************************************)
(* Claims about extractTransferData, checked under SpecLarge.              *)
(***************************************************************************)
\* C21: the isLargeTransfer flag of a Transfer is true exactly when its raw
\* amount is at least 100000 * 10^decimals for a stablecoin and at least
\* 1000000 * 10^decimals otherwise, for every configured decimals from 0 up.
C21_LargeIffAtThreshold ==
  ltPc = "done" =>
     (ltResult <=>
        ltValue >= (IF ltStable THEN StablecoinThreshold ELSE TokenThreshold)
                     * Pow10(ltDecimals))

(***************************************************************************)
(* Claims about the ticks of the pull listener, checked under SpecPull.    *)
(***************************************************************************)
TicksInFlight == {t \in TickSlots : ticks[t].pc # "idle"}

\* C22: at most one tick of the pull listener is in flight at any time.
C22_OneTickInFlight == Cardinality(TicksInFlight) <= 1

\* C23: a tick whose range was chosen and which ends while the listener is
\* stopped leaves the cursor as it was.
C23_StopMidTickKeepsCursor ==
  [][\A t \in TickSlots :
       (/\ ticks[t].pc \in {"query", "loop", "receipt"}
        /\ ticks'[t].pc = "idle"
        /\ ~isRunning) => cursor' = cursor]_vars

\* C24: a tick in which a remote call failed (the head-block request, a log
\* query or a receipt request) ends with the cursor as it was.
C24_FailedTickKeepsCursor ==
  [][\A t \in TickSlots :
       (/\ ticks[t].pc # "idle"
        /\ ticks'[t].pc = "idle"
        /\ ticks[t].failed) => cursor' = cursor]_vars

\* C25: a tick that sees head <= cursor ends at once with the cursor as it
\* was; otherwise the range it chooses is [cursor + 1, min(head, cursor +
\* BlocksPerScan)], and when it completes the cursor is the end of that
\* range, at most head and at most BlocksPerScan past the cursor the tick saw.
C25_TickRange ==
  [][\A t \in TickSlots :
       /\ (ticks[t].pc = "head" /\ ticks'[t].pc # "head" /\ head <= cursor)
             => (ticks'[t].pc = "idle" /\ cursor' = cursor)
       /\ (ticks[t].pc = "head" /\ ticks'[t].pc = "query")
             => /\ ticks'[t].from = cursor + 1
                /\ ticks'[t].to = Min(head, cursor + BlocksPerScan)
                /\ cursor' = cursor
       /\ (ticks[t].pc = "head" /\ ticks'[t].pc = "idle" /\ cursor' # cursor)
             => /\ cursor < cursor' /\ cursor' <= head
                /\ cursor' = Min(head, cursor + BlocksPerScan)
       /\ (ticks[t].pc = "loop" /\ ticks'[t].pc = "idle")
             => /\ cursor' = ticks[t].to
                /\ cursor' <= head
                /\ cursor' - (ticks[t].from - 1) <= BlocksPerScan
                /\ cursor' - (ticks[t].from - 1) >= 1]_vars

\* A tick that chose a range of BlocksPerScan blocks, shorter than the
\* distance to the head, has completed and set the cursor to its end.
C25_Witness ==
  /\ isRunning
  /\ ticksFired = 1
  /\ cursor = firstCursor + BlocksPerScan
  /\ cursor < head
  /\ \A t \in TickSlots : ticks[t].pc = "idle"
  /\ Len(enqueued) > 0

\* C28: the delay set before the first reconnect attempt is 1 s, the delay set
\* after k reconnects in a row have failed is 2^k s, twice the one before, and
\* no delay is more than 32 s.
C28_BackoffDoubles ==
  [][reconnectAttempts' = reconnectAttempts + 1 =>
       /\ reconnectDelay' = 1000 * Pow2(failedReconnects')
       /\ reconnectDelay' <= 32000
    ]_vars

(***************************************************************************)
(* Claims about the periodic reload, checked under SpecRefresh.            *)
(***************************************************************************)
\* C29: when a refresh of the running push listener completes successfully,
\* the config store has not changed since that refresh began and no other
\* load of the listener is in progress, the contracts the listener holds
\* subscriptions for are exactly the contracts enabled in the config store.
C29_RefreshSubscribesEnabled ==
  [][\A l \in SetupSlots :
        (/\ setups[l].result # "ok"
         /\ setups'[l].result = "ok"
         /\ setups'[l].kind = "refresh"
         /\ setups'[l].since = storeChanges'
         /\ \A k \in SetupSlots : setups'[k].pc = "idle"
         /\ pushActive') => SubscribedContracts' = storeEnabled']_vars

\* C30: a periodic reload that fails because the config-store read throws
\* changes nothing of its listener, pull or push: the running flag, the
\* contract snapshot, the subscriptions and the timers are left as they
\* were, and the refresh timer of a running listener stays live, so that the
\* next tick reloads again.
C30_FailedReloadChangesNothing ==
  [][/\ reloadsFailed'.pull # reloadsFailed.pull =>
          /\ UNCHANGED <<isRunning, contractConfigs, cursor, scanInterval,
                         contractRefreshTimer, liveTimers>>
          /\ isRunning' => contractRefreshTimer' \in liveTimers'
     /\ reloadsFailed'.push # reloadsFailed.push =>
          /\ UNCHANGED <<pushActive, pushRefreshTimer, contractInstances,
                         contractListeners, providerErrorListener>>
          /\ pushActive' => pushRefreshTimer' = "live"
    ]_vars

\* Contract B was disabled after both listeners had started; the one reload
\* each listener has tried since has failed, and both still run with their
\* timers on the snapshot and the subscriptions of A and B.
C30_Witness ==
  /\ storeEnabled = {"A"}
  /\ isRunning /\ pushActive
  /\ reloadTicks = 1 /\ setupTicks = 1
  /\ reloadsFailed = [pull |-> 1, push |-> 1]
  /\ reloads = 0
  /\ \A l \in SetupSlots : setups[l].pc = "idle"
  /\ DOMAIN contractConfigs = {"A", "B"}
  /\ SubscribedContracts = {"A", "B"}
  /\ contractRefreshTimer \in liveTimers
  /\ pushRefreshTimer = "live"

(***************************************************************************)
(* Claims about setupContract, checked under SpecSetupContract.            *)
(***************************************************************************)
ListenersFor(name) ==
  Cardinality({i \in 1..Len(scListeners) : scListeners[i] = name})

\* C31: once setupContract has run for a contract whose configured topic-0
\* hashes all belong to events of its abi, each configured hash has exactly
\* one subscription.
C31_OneSubscriptionPerEvent ==
  (/\ scPc = "done"
   /\ \A i \in 1..Len(scEvents) : AbiEventOf(scEvents[i]) \in scAbi)
    => \A i \in 1..Len(scEvents) : ListenersFor(AbiEventOf(scEvents[i])) = 1

(***************************************************************************)
(* Claims about the events of a scanned range, checked under SpecDecode.   *)
(***************************************************************************)
EnqueuedLogs == {dcEnqueued[i].logIndex : i \in 1..Len(dcEnqueued)}

\* C32: a log whose decoding against the abi fails is dropped, no event is
\* passed to the dispatcher for it, and the loop still goes through the other
\* logs of the range.
C32_UndecodableLogDropped ==
  /\ \A e \in EnqueuedLogs : dcEvents[e].decodable
  /\ dcPc = "done" => dcIdx = Len(dcEvents) + 1

(***************************************************************************)
(* Further claims about the pull listener, checked under SpecPull.         *)
(***************************************************************************)
\* C33: no step in which a tick of the pull listener ends sets the cursor to
\* a smaller value than it had.
C33_CursorNeverDecreases ==
  [][(\E t \in TickSlots : ticks[t].pc # "idle" /\ ticks'[t].pc = "idle")
       => cursor' >= cursor]_vars


RunningFor(c) == {k \in KeysOf(c) : listenerRunning[k]}

\* C34: whatever sequence of service operations runs, a chain never has more
\* than one running listener.
C34_OneRunningListenerPerChain ==
  \A c \in Chains : Cardinality(RunningFor(c)) <= 1


NoDrainLoop == ~isProcessing /\ \A c \in Callers : callPc[c] = "idle"

\* C35: whenever no drain loop is active the dispatcher queue is empty, also
\* after a handle() or a canHandle() has thrown.
C35_NoEventStranded ==
  NoDrainLoop => eventQueue = <<>>


ScanTimers == {tm \in liveTimers : tm % 2 = 1}
RefreshTimers == {tm \in liveTimers : tm % 2 = 0}

\* C36: a pull listener has at most one scan timer and one contract-refresh
\* timer that were created and not cleared, and once it is stopped with no
\* start() call in progress none is left, also when start() calls overlap.
C36_TimersOwnedAndCancelled ==
  /\ Cardinality(ScanTimers) <= 1
  /\ Cardinality(RefreshTimers) <= 1
  /\ (~isRunning /\ \A c \in StartCalls : startPc[c] = "idle") => liveTimers = {}


PendingReconnects ==
  (IF reconnectTimer = "pending" THEN 1 ELSE 0) + orphanReconnects

\* C37: a push listener has at most one reconnect timeout pending, and its
\* reconnectAttempts counter never exceeds by more than the attempt now
\* scheduled or running the number of reconnect() calls that failed since the
\* last success.
C37_OneReconnectPending ==
  /\ PendingReconnects <= 1
  /\ reconnectAttempts <= failedReconnects + 1


\* The step in which a switchStrategy call ends by throwing: createListener or
\* listener.start() has failed.
SwitchThrows ==
  /\ op.name = "switchStrategy" /\ op.pc \in {"start", "starting"}
  /\ op' = Idle
  /\ lastStart'[op.chain].result \in {"createFailed", "startFailed"}

\* C38: when switchStrategy throws, the chain's configured strategy and its
\* running listeners are those of before the call.
C38_SwitchAllOrNothing ==
  [][SwitchThrows =>
       /\ strategy'[op.chain] = switchFrom.strategy
       /\ {k \in KeysOf(op.chain) : listenerRunning'[k]} = switchFrom.running
    ]_vars


\* The logs in the range of tick t of the known events of the contracts in cfgs.
RangeLogsOf(t, cfgs) ==
  UNION {queryFilter(q, ticks[t].from, ticks[t].to) : q \in Queries(cfgs)}

\* C39: the queries of a tick cover the contracts of the snapshot the
\* listener held when the tick fixed its range, whatever refresh has
\* completed since; a tick that fixes its range takes the snapshot of then.
C39_TickScansOneSnapshot ==
  [][\A t \in TickSlots :
       /\ (ticks[t].pc = "query" /\ ticks'[t].pc = "loop") =>
            ticks'[t].events = SortEvents(RangeLogsOf(t, ticks[t].cfgs))
       /\ (ticks[t].pc = "head" /\ ticks'[t].pc = "query") =>
            ticks'[t].cfgs = contractConfigs
    ]_vars

\* A tick has its events, among them a log of a contract that a refresh
\* completed since the tick began has dropped from the snapshot.
C39_Witness ==
  \E t \in TickSlots :
    /\ ticks[t].pc = "loop"
    /\ reloadTicks > 0 /\ reloads = 0
    /\ DOMAIN contractConfigs # DOMAIN ticks[t].cfgs
    /\ \E n \in 1..Len(ticks[t].events) :
         ticks[t].events[n].address \notin DOMAIN contractConfigs


\* C40: a stop() leaves the cursor as it is, and a start() call that ends
\* while the cursor is set leaves it as it is: a listener that is stopped and
\* started again goes on from the cursor it held.
C40_RestartKeepsCursor ==
  [][/\ (isRunning /\ ~isRunning') => cursor' = cursor
     /\ (cursor # 0 /\ startPc[1] # "idle" /\ startPc'[1] = "idle") =>
          cursor' = cursor
    ]_vars

\* The listener runs after a stop and a second start, with no scan in
\* progress, on two timers, and its cursor is behind the head.
C40_Witness ==
  /\ isRunning
  /\ timersMade = 4 /\ liveTimers = {3, 4}
  /\ startPc[1] = "idle"
  /\ \A t \in TickSlots : ticks[t].pc = "idle"
  /\ cursor # 0 /\ cursor < head

====
